---- MODULE Spec2Model ----
(***************************************************************************)
(* Pix-Ruom: the storage layer.  A model of                                *)
(*   src/src/utils/storage/TelegramStorage.js   (the Telegram adapter),    *)
(*   src/src/utils/config/storageServices.js    (provider-config schema),  *)
(*   src/unnamed/part_002                       (the FileManager class).   *)
(*                                                                         *)
(* JavaScript strings whose characters matter (file names, mime types,     *)
(* keys, prefixes, path templates, config values) are sequences of         *)
(* one-character strings; opaque strings (file ids, remote paths, tokens)  *)
(* are TLA+ strings.                                                       *)
(***************************************************************************)
EXTENDS Integers, Sequences, FiniteSets, TLC

(***************************************************************************)
(* Bounds of the model.                                                    *)
(***************************************************************************)
\* the longest index the model lets upload grow (the code has no limit)
MaxIndex == 2
\* timestamps (milliseconds of new Date()) range over 0..MaxTime
MaxTime == 1
\* the configured size limits (maxFileSize, in MB) range over 1..MaxFileSizeMB
MaxFileSizeMB == 2
\* the file names built from the alphabet have at most MaxNameLen characters
MaxNameLen == 3
\* a caller changes at most MaxMutations parts of the values it was handed
MaxMutations == 1
\* a photo result carries at most MaxVariants size variants
MaxVariants == 3
\* an upload-path template is made of at most MaxPieces pieces
MaxPieces == 3
\* the file names given to generatePath have at most MaxPathNameLen characters
MaxPathNameLen == 2
\* at most MaxTasks calls of the adapter are in flight in one event loop
MaxTasks == 2

(***************************************************************************)
(* String primitives of JavaScript used by the sources.                    *)
(***************************************************************************)
UPPER == <<"A","B","C","D","E","F","G","H","I","J","K","L","M",
           "N","O","P","Q","R","S","T","U","V","W","X","Y","Z">>
LOWER == <<"a","b","c","d","e","f","g","h","i","j","k","l","m",
           "n","o","p","q","r","s","t","u","v","w","x","y","z">>
DIGITS == <<"0","1","2","3","4","5","6","7","8","9">>

Range(s) == { s[i] : i \in 1..Len(s) }

\* the lower-case letter of each upper-case letter
LowerOf == [c \in Range(UPPER) |-> LOWER[CHOOSE i \in 1..Len(UPPER) : UPPER[i] = c]]

\* String.prototype.toLowerCase, one character
LowerChar(c) == IF c \in DOMAIN LowerOf THEN LowerOf[c] ELSE c

\* String.prototype.toLowerCase
toLowerCase(s) == [i \in 1..Len(s) |-> LowerChar(s[i])]

\* String.prototype.startsWith
startsWith(s, p) == Len(p) <= Len(s) /\ SubSeq(s, 1, Len(p)) = p

\* the position of the first occurrence of p in s, 0 when there is none
IndexOf(s, p) ==
    LET hits == { i \in 1..(Len(s) - Len(p) + 1) : SubSeq(s, i, i + Len(p) - 1) = p }
    IN  IF hits = {} THEN 0 ELSE CHOOSE i \in hits : \A j \in hits : i <= j

\* String.prototype.replace(pattern, replacement) with a STRING pattern:
\* only the first occurrence is replaced
ReplaceFirst(s, p, r) ==
    LET i == IndexOf(s, p)
    IN  IF i = 0 THEN s
        ELSE SubSeq(s, 1, i - 1) \o r \o SubSeq(s, i + Len(p), Len(s))

\* String.prototype.split(sep) for a one-character separator
RECURSIVE Split(_, _)
Split(s, sep) ==
    LET i == IndexOf(s, <<sep>>)
    IN  IF i = 0 THEN <<s>>
        ELSE <<SubSeq(s, 1, i - 1)>> \o Split(SubSeq(s, i + 1, Len(s)), sep)

\* Array.prototype.pop on a fresh array: its last element
Pop(a) == a[Len(a)]

\* s.replace(/c+/g, c): every run of the character c becomes one c
RECURSIVE CollapseRuns(_, _)
CollapseRuns(s, c) ==
    IF Len(s) <= 1 THEN s
    ELSE IF s[1] = c /\ s[2] = c THEN CollapseRuns(Tail(s), c)
    ELSE <<s[1]>> \o CollapseRuns(Tail(s), c)

\* s.replace(/^c+/, ''): the leading run of c removed
RECURSIVE StripLeadingRun(_, _)
StripLeadingRun(s, c) ==
    IF Len(s) > 0 /\ s[1] = c THEN StripLeadingRun(Tail(s), c) ELSE s

\* s.replace(/c+$/, ''): the trailing run of c removed
RECURSIVE StripTrailingRun(_, _)
StripTrailingRun(s, c) ==
    IF Len(s) > 0 /\ s[Len(s)] = c
    THEN StripTrailingRun(SubSeq(s, 1, Len(s) - 1), c) ELSE s

\* String(n) for a natural number n
RECURSIVE NatToString(_)
NatToString(n) ==
    IF n < 10 THEN <<DIGITS[n + 1]>>
    ELSE NatToString(n \div 10) \o <<DIGITS[(n % 10) + 1]>>

\* String.prototype.padStart(2, '0')
padStart2(s) == IF Len(s) >= 2 THEN s ELSE IF Len(s) = 1 THEN <<"0">> \o s ELSE <<"0", "0">>

\* String.prototype.trim (the white space of the model is the blank)
trim(s) == StripTrailingRun(StripLeadingRun(s, " "), " ")

(***************************************************************************)
(* FileManager: destination paths (src/unnamed/part_002).                  *)
(***************************************************************************)
\* the character class [a-zA-Z0-9-_.] of _generateFilename
NameChars == Range(UPPER) \cup Range(LOWER) \cup Range(DIGITS) \cup {"-", "_", "."}

IsNameChar(c) == c \in NameChars

\* .replace(/[^a-zA-Z0-9-_.]/g, '-')
ReplaceForbidden(s) == [i \in 1..Len(s) |-> IF IsNameChar(s[i]) THEN s[i] ELSE "-"]

\* FileManager._generateFilename; nameRule is a string, and token is what the
\* environment supplies for the timestamp and random rules
\* (Date.now().toString(), Math.random().toString(36).substring(2, 10))
_generateFilename(originalFilename, nameRule, token) ==
    LET ext == toLowerCase(Pop(Split(originalFilename, ".")))
        basename ==
            IF nameRule \in {"timestamp", "random"} THEN token
            ELSE StripTrailingRun(
                   StripLeadingRun(
                     CollapseRuns(ReplaceForbidden(Split(originalFilename, ".")[1]), "-"),
                     "-"),
                   "-")
    IN  basename \o <<".">> \o ext

\* a _normalizePath that strips the ends before collapsing the runs
_normalizePathStripFirst(path) ==
    LET b == IF Len(path) > 0 /\ path[1] = "/" THEN Tail(path) ELSE path
        c == IF Len(b) > 0 /\ b[Len(b)] = "/" THEN SubSeq(b, 1, Len(b) - 1) ELSE b
    IN  CollapseRuns(c, "/")

\* FileManager._normalizePath
_normalizePath(path) ==
    LET a == CollapseRuns(path, "/")
        b == IF Len(a) > 0 /\ a[1] = "/" THEN Tail(a) ELSE a
        c == IF Len(b) > 0 /\ b[Len(b)] = "/" THEN SubSeq(b, 1, Len(b) - 1) ELSE b
    IN  c

YEAR_TAG == <<"{","y","e","a","r","}">>
MONTH_TAG == <<"{","m","o","n","t","h","}">>
DAY_TAG == <<"{","d","a","y","}">>

\* a generatePath that leaves the day placeholder alone
generatePathWithoutDay(uploadPath, nameRule, date, token, filename) ==
    LET path == ReplaceFirst(
                  ReplaceFirst(uploadPath, YEAR_TAG, NatToString(date.year)),
                  MONTH_TAG, padStart2(NatToString(date.month)))
        processedFilename == _generateFilename(filename, nameRule, token)
    IN  _normalizePath(path \o <<"/">> \o processedFilename)

\* FileManager.generatePath; date is [year, month, day] of new Date(), month 1..12
generatePath(uploadPath, nameRule, date, token, filename) ==
    LET path == ReplaceFirst(
                  ReplaceFirst(
                    ReplaceFirst(uploadPath, YEAR_TAG, NatToString(date.year)),
                    MONTH_TAG, padStart2(NatToString(date.month))),
                  DAY_TAG, padStart2(NatToString(date.day)))
        processedFilename == _generateFilename(filename, nameRule, token)
    IN  _normalizePath(path \o <<"/">> \o processedFilename)

(***************************************************************************)
(* Provider configuration (src/src/utils/config/storageServices.js).       *)
(***************************************************************************)
\* the fields of each storage service: key and required (label, icon and
\* placeholder are never read by the code modelled here)
STORAGE_SERVICES ==
    [ s3 |-> << [key |-> "endpoint", required |-> FALSE],
                [key |-> "region", required |-> TRUE],
                [key |-> "bucket", required |-> TRUE],
                [key |-> "accessKey", required |-> TRUE],
                [key |-> "secretKey", required |-> TRUE] >>,
      oss |-> << [key |-> "endpoint", required |-> TRUE],
                 [key |-> "bucket", required |-> TRUE],
                 [key |-> "accessKey", required |-> TRUE],
                 [key |-> "secretKey", required |-> TRUE] >>,
      cos |-> << [key |-> "region", required |-> TRUE],
                 [key |-> "bucket", required |-> TRUE],
                 [key |-> "secretId", required |-> TRUE],
                 [key |-> "secretKey", required |-> TRUE] >>,
      telegram |-> << [key |-> "botToken", required |-> TRUE],
                      [key |-> "chatId", required |-> TRUE],
                      [key |-> "proxyUrl", required |-> FALSE],
                      [key |-> "customDomain", required |-> FALSE] >> ]

\* the names every object literal inherits from Object.prototype (two of
\* them): STORAGE_SERVICES[name] is then a truthy value without `fields`
InheritedNames == {"constructor", "toString"}

\* STORAGE_SERVICES[type] / STORAGE_CLASSES[type]: "own" for a service of the
\* table, "inherited" for an inherited property, "none" for undefined
Lookup(type) ==
    IF type \in DOMAIN STORAGE_SERVICES THEN "own"
    ELSE IF type \in InheritedNames THEN "inherited"
    ELSE "none"

FieldKeys(type) == { STORAGE_SERVICES[type][i].key : i \in 1..Len(STORAGE_SERVICES[type]) }

OptionalKeys(type) ==
    { STORAGE_SERVICES[type][i].key :
        i \in { j \in 1..Len(STORAGE_SERVICES[type]) : ~STORAGE_SERVICES[type][j].required } }

\* getRequiredFields, for a service of the table: the keys of the required
\* fields, in the order of the table
getRequiredFields(type) ==
    LET required == SelectSeq(STORAGE_SERVICES[type], LAMBDA field : field.required)
    IN  [i \in 1..Len(required) |-> required[i].key]

\* the values undefined and null of a config entry; every other value is a
\* string, a sequence of characters
Undefined == <<"undefined">>
Null == <<"null">>

\* a config object: present is false for undefined/null, entries gives each
\* key its value (Undefined for a key the object does not have)
NoConfig == [present |-> FALSE, entries |-> <<>>]

\* !config[field]?.trim()
IsBlank(config, field) ==
    LET value == IF field \in DOMAIN config.entries THEN config.entries[field] ELSE Undefined
    IN  value \in {Undefined, Null} \/ trim(value) = <<>>

ValidationResult(isValid, message) ==
    [outcome |-> "returned", isValid |-> isValid, message |-> message]

\* validateStorageConfig; the messages are named by what they say: "invalid
\* storage type", "config is empty", "fill in all required fields or clear
\* them all", "validated".  For an inherited name the service is truthy and
\* getRequiredFields reads .filter of its undefined `fields`: a TypeError.
validateStorageConfig(type, config) ==
    IF Lookup(type) = "none" THEN ValidationResult(FALSE, "invalid storage type")
    ELSE IF Lookup(type) = "inherited"
    THEN [outcome |-> "threw", isValid |-> FALSE, message |-> "TypeError"]
    ELSE LET requiredFields == getRequiredFields(type)
             allFieldsEmpty == \A i \in 1..Len(requiredFields) : IsBlank(config, requiredFields[i])
             missingFields == SelectSeq(requiredFields, LAMBDA field : IsBlank(config, field))
         IN  IF ~config.present THEN ValidationResult(TRUE, "config is empty")
             ELSE IF allFieldsEmpty THEN ValidationResult(TRUE, "config is empty")
             ELSE IF Len(missingFields) > 0
             THEN ValidationResult(FALSE, "fill in all required fields or clear them all")
             ELSE ValidationResult(TRUE, "validated")

(***************************************************************************)
(* Text used by the sources, as character sequences.                       *)
(***************************************************************************)
GIF == <<"g","i","f">>
WEBP == <<"w","e","b","p">>
IMAGE_ == <<"i","m","a","g","e","/">>
VIDEO_ == <<"v","i","d","e","o","/">>
AUDIO_ == <<"a","u","d","i","o","/">>
IMAGE_GIF == IMAGE_ \o GIF
IMAGE_PNG == IMAGE_ \o <<"p","n","g">>
IMAGE_WEBP == IMAGE_ \o WEBP
IMAGE_SVG == IMAGE_ \o <<"s","v","g","+","x","m","l">>
IMAGE_ICON == IMAGE_ \o <<"x","-","i","c","o","n">>
VIDEO_MP4 == VIDEO_ \o <<"m","p","4">>
AUDIO_MPEG == AUDIO_ \o <<"m","p","e","g">>
APPLICATION_ZIP == <<"a","p","p","l","i","c","a","t","i","o","n","/","z","i","p">>

(***************************************************************************)
(* TelegramStorage: the pure helpers                                       *)
(* (src/src/utils/storage/TelegramStorage.js).                             *)
(***************************************************************************)
\* a selection that looks at the mime type before the extension
_getSendFunctionMimeFirst(fileType, fileName) ==
    LET ext == toLowerCase(Pop(Split(fileName, ".")))
    IN  IF fileType = IMAGE_SVG \/ fileType = IMAGE_ICON
        THEN [url |-> "sendDocument", type |-> "document"]
        ELSE IF ext = GIF \/ ext = WEBP \/ fileType = IMAGE_GIF
        THEN [url |-> "sendAnimation", type |-> "animation"]
        ELSE IF startsWith(fileType, IMAGE_)
        THEN [url |-> "sendPhoto", type |-> "photo"]
        ELSE IF startsWith(fileType, VIDEO_)
        THEN [url |-> "sendVideo", type |-> "video"]
        ELSE IF startsWith(fileType, AUDIO_)
        THEN [url |-> "sendAudio", type |-> "audio"]
        ELSE [url |-> "sendDocument", type |-> "document"]

\* TelegramStorage._getSendFunction
_getSendFunction(fileType, fileName) ==
    LET ext == toLowerCase(Pop(Split(fileName, ".")))
    IN  IF ext = GIF \/ ext = WEBP \/ fileType = IMAGE_GIF
        THEN [url |-> "sendAnimation", type |-> "animation"]
        ELSE IF fileType = IMAGE_SVG \/ fileType = IMAGE_ICON
        THEN [url |-> "sendDocument", type |-> "document"]
        ELSE IF startsWith(fileType, IMAGE_)
        THEN [url |-> "sendPhoto", type |-> "photo"]
        ELSE IF startsWith(fileType, VIDEO_)
        THEN [url |-> "sendVideo", type |-> "video"]
        ELSE IF startsWith(fileType, AUDIO_)
        THEN [url |-> "sendAudio", type |-> "audio"]
        ELSE [url |-> "sendDocument", type |-> "document"]

\* a file_size the response does not carry (undefined)
NoSize == -1

\* JavaScript's a > b on file sizes: false as soon as one side is undefined
SizeGreater(a, b) == a # NoSize /\ b # NoSize /\ a > b

\* a reduce that keeps the first variant
ReduceFirst(photo) == photo[1]

\* Array.prototype.reduce without an initial value, with the callback of
\* _getFileInfo: (prev, current) => prev.file_size > current.file_size ? prev : current.
\* The caller makes sure the array is not empty.
RECURSIVE ReduceLargest(_)
ReduceLargest(photo) ==
    IF Len(photo) = 1 THEN photo[1]
    ELSE LET prev == ReduceLargest(SubSeq(photo, 1, Len(photo) - 1))
             current == photo[Len(photo)]
         IN  IF SizeGreater(prev.file_size, current.file_size) THEN prev ELSE current

\* the value null of _getFileInfo
NoFileInfo == [found |-> FALSE, file_id |-> "", file_size |-> NoSize]

\* getFileDetails of _getFileInfo (file_name is never read afterwards)
getFileDetails(file) == [found |-> TRUE, file_id |-> file.file_id, file_size |-> file.file_size]

\* TelegramStorage._getFileInfo.  responseData is [ok, hasResult, result]; result
\* has the fields photo ([has, variants]) and video, audio, document, animation
\* (a sequence holding the descriptor, empty when the field is absent).
\* A TypeError (no result, reduce of an empty photo array) is caught: null.
_getFileInfo(responseData) ==
    IF ~responseData.ok THEN NoFileInfo
    ELSE IF ~responseData.hasResult THEN NoFileInfo
    ELSE LET result == responseData.result
         IN  IF result.photo.has
             THEN IF Len(result.photo.variants) = 0 THEN NoFileInfo
                  ELSE getFileDetails(ReduceLargest(result.photo.variants))
             ELSE IF Len(result.video) > 0 THEN getFileDetails(result.video[1])
             ELSE IF Len(result.audio) > 0 THEN getFileDetails(result.audio[1])
             ELSE IF Len(result.document) > 0 THEN getFileDetails(result.document[1])
             ELSE IF Len(result.animation) > 0 THEN getFileDetails(result.animation[1])
             ELSE NoFileInfo

\* the value null of _getFilePath (also what every falsy file_path comes to
\* in upload's test !filePath)
NoPath == ""

\* TelegramStorage._getFilePath: the outcome of the getFile request is
\* [kind, path]: "reject" (fetch fails), "unparseable" (response.json() fails),
\* "notok" (ok:false), "noresult" (ok:true without result: a TypeError, caught),
\* "ok" (ok:true, result.file_path = path, NoPath when the field is missing)
_getFilePath(getFile) ==
    IF getFile.kind = "ok" THEN getFile.path ELSE NoPath

\* the constructor: [botToken, chatId, proxyUrl] to the adapter's fields
TelegramStorage(config) ==
    LET apiDomain == IF config.proxyUrl # "" THEN <<"https://", config.proxyUrl>>
                     ELSE <<"https://api.telegram.org">>
    IN  [ botToken |-> config.botToken,
          chatId |-> config.chatId,
          proxyUrl |-> config.proxyUrl,
          baseURL |-> apiDomain \o <<"/bot", config.botToken>>,
          fileDomain |-> apiDomain,
          storageKey |-> "telegram_upload_index",
          fileManager |-> config.fileManager ]

(***************************************************************************)
(* FileManager: construction of adapters (src/unnamed/part_002).           *)
(***************************************************************************)
\* DEFAULT_SETTINGS (../config/fileTypes) is not among the sources: the path
\* template and naming rule the design document names as defaults
DEFAULT_SETTINGS ==
    [ uploadPath |-> YEAR_TAG \o <<"/">> \o MONTH_TAG \o <<"/">> \o DAY_TAG,
      nameRule |-> "original" ]

\* the FileManager constructor, lines 336-345: x || default takes the default
\* for undefined and for the empty string
FileManager(config) ==
    [ uploadPath |-> IF config.uploadPath \in {Undefined, <<>>}
                     THEN DEFAULT_SETTINGS.uploadPath ELSE config.uploadPath,
      nameRule |-> IF config.nameRule = "" THEN DEFAULT_SETTINGS.nameRule
                   ELSE config.nameRule ]

\* FileManager.createStorage, lines 438-458.  config is the settings object:
\* present, entries (its own top-level keys), uploadPath, nameRule and
\* provider, the value of config[type].  The adapter is the class named by
\* type, built from { ...config[type], fileManager }.
createStorage(type, config) ==
    LET validation == validateStorageConfig(type, config)
    IN  IF validation.outcome = "threw"
        THEN [outcome |-> "threw", error |-> validation.message]
        ELSE IF ~validation.isValid
        THEN [outcome |-> "threw", error |-> validation.message]
        ELSE IF Lookup(type) # "own"
        THEN [outcome |-> "threw", error |-> "unsupported storage type"]
        ELSE IF ~config.present
        THEN [outcome |-> "threw", error |-> "TypeError"]
        ELSE [outcome |-> "returned",
              adapter |-> [ class |-> type,
                            config |-> IF config.provider.present
                                       THEN config.provider.entries ELSE <<>>,
                            fileManager |-> FileManager([uploadPath |-> config.uploadPath,
                                                         nameRule |-> config.nameRule]) ]]

\* Object.keys(config[type]): the keys that carry a value
ObjectKeys(entries) == { k \in DOMAIN entries : entries[k] # Undefined }

\* FileManager.isStorageConfigured, lines 470-475; config is the settings
\* object of createStorage.  a && b && c is the first falsy operand, else c:
\* "undefined" stands for the undefined config[type] the expression returns
isStorageConfigured(type, config) ==
    IF ~config.present \/ type = "" THEN [outcome |-> "returned", value |-> "false"]
    ELSE LET validation == validateStorageConfig(type, config)
         IN  IF validation.outcome = "threw" THEN [outcome |-> "threw", value |-> "TypeError"]
             ELSE IF ~validation.isValid THEN [outcome |-> "returned", value |-> "false"]
             ELSE IF ~config.provider.present
             THEN [outcome |-> "returned", value |-> "undefined"]
             ELSE IF Cardinality(ObjectKeys(config.provider.entries)) > 0
             THEN [outcome |-> "returned", value |-> "true"]
             ELSE [outcome |-> "returned", value |-> "false"]

(***************************************************************************)
(* FileManager: validation and processing of a file                        *)
(* (src/unnamed/part_002).  A file is [name, type, size]; config carries    *)
(* maxFileSize (in MB, a positive integer here) and allowedTypes.           *)
(***************************************************************************)
\* the message of line 374, naming the configured limit
SizeLimitMessage(maxFileSize) == [text |-> "file size over the limit", limit |-> maxFileSize]

\* the message of line 378
UnsupportedMessage == [text |-> "unsupported file format", limit |-> 0]

\* the value true of line 381
Valid == [text |-> "true", limit |-> 0]

\* the division of line 372 followed by the comparison of line 373:
\* file.size / (1024 * 1024) > maxFileSize.  The division by a power of two
\* is exact, so the comparison is the one of the integers.
validateFileByMillion(config, file) ==
    IF file.size > config.maxFileSize * (1000 * 1000)
    THEN SizeLimitMessage(config.maxFileSize)
    ELSE IF file.type \notin config.allowedTypes THEN UnsupportedMessage
    ELSE Valid

\* the type check made before the size check
validateFileTypeFirst(config, file) ==
    IF file.type \notin config.allowedTypes THEN UnsupportedMessage
    ELSE IF file.size > config.maxFileSize * (1024 * 1024)
    THEN SizeLimitMessage(config.maxFileSize)
    ELSE Valid

\* FileManager.validateFile, lines 371-382
validateFile(config, file) ==
    IF file.size > config.maxFileSize * (1024 * 1024)
    THEN SizeLimitMessage(config.maxFileSize)
    ELSE IF file.type \notin config.allowedTypes THEN UnsupportedMessage
    ELSE Valid

\* error.message of line 364 for the value compress threw: the message of an
\* Error (possibly empty), undefined for a string or an object without one;
\* for null and undefined the read itself throws a TypeError
MessageOf(thrown) ==
    IF thrown.kind = "Error" THEN [kind |-> "string", text |-> thrown.message]
    ELSE IF thrown.kind \in {"string", "object"} THEN [kind |-> "undefined", text |-> ""]
    ELSE [kind |-> "TypeError", text |-> ""]

NullError == [kind |-> "null", text |-> ""]

\* the shape of line 353, 359, 362 and 364: file is <<>> for null, <<f>> for f
ProcessResult(file, error, calls) ==
    [outcome |-> "returned", file |-> file, error |-> error, compressCalls |-> calls]

\* compress called for every file that passed validation
processFileCompressAll(config, file, compress) ==
    LET validationResult == validateFile(config, file)
    IN  IF validationResult # Valid
        THEN ProcessResult(<<>>, [kind |-> "string", text |-> validationResult.text], <<>>)
        ELSE IF compress.kind = "file"
        THEN ProcessResult(<<compress.file>>, NullError, <<file>>)
        ELSE IF MessageOf(compress.thrown).kind = "TypeError"
        THEN [outcome |-> "threw", file |-> <<>>, error |-> NullError,
              compressCalls |-> <<file>>]
        ELSE ProcessResult(<<>>, MessageOf(compress.thrown), <<file>>)

\* FileManager.processFile, lines 350-366.  compress is what
\* this.imageCompressor.compress(file) does when called: [kind |-> "file",
\* file] or [kind |-> "throw", thrown].  compressCalls lists the files
\* compress was called with.
processFile(config, file, compress) ==
    LET validationResult == validateFile(config, file)
    IN  IF validationResult # Valid
        THEN ProcessResult(<<>>, [kind |-> "string", text |-> validationResult.text], <<>>)
        ELSE IF ~startsWith(file.type, IMAGE_)
        THEN ProcessResult(<<file>>, NullError, <<>>)
        ELSE IF compress.kind = "file"
        THEN ProcessResult(<<compress.file>>, NullError, <<file>>)
        ELSE IF MessageOf(compress.thrown).kind = "TypeError"
        THEN [outcome |-> "threw", file |-> <<>>, error |-> NullError,
              compressCalls |-> <<file>>]
        ELSE ProcessResult(<<>>, MessageOf(compress.thrown), <<file>>)

(***************************************************************************)
(* The Local Index Store: the value persisted in localStorage under        *)
(* storageKey.  kind is                                                    *)
(*   "absent"       no item (getItem returns null),                        *)
(*   "empty"        the empty string,                                      *)
(*   "unparseable"  text JSON.parse rejects,                               *)
(*   "null", "number", "object"  text that parses to null, to a number,    *)
(*                  to an object that is no array,                         *)
(*   "array"        the JSON text of an array of index records (recs).     *)
(* A record's lastModified is the time in milliseconds: toISOString and    *)
(* new Date(iso) are both exact to the millisecond.                        *)
(***************************************************************************)
StoreKinds == {"absent", "empty", "unparseable", "null", "number", "object", "array"}

\* JSON.stringify(index) for an array of index records, as persisted by setItem
Stringify(index) == [kind |-> "array", recs |-> index]

\* TelegramStorage._getLocalIndex: [isArray, items]; a value that is no array
\* (null, a number, an object) is returned as it was parsed
_getLocalIndex(st) ==
    IF st.kind \in {"absent", "empty"} THEN [isArray |-> TRUE, items |-> <<>>]
    ELSE IF st.kind = "unparseable" THEN [isArray |-> TRUE, items |-> <<>>]
    ELSE IF st.kind = "array" THEN [isArray |-> TRUE, items |-> st.recs]
    ELSE [isArray |-> FALSE, items |-> <<>>]

\* TelegramStorage._saveLocalIndex: setItem either stores the text or throws
\* (quota, storage disabled); the exception is logged and swallowed
_saveLocalIndex(st, index, writeOk) == IF writeOk THEN Stringify(index) ELSE st

\* Array.prototype.sort with the comparator of listObjects,
\* (a, b) => new Date(b.lastModified) - new Date(a.lastModified):
\* a stable sort, latest first
\* the comparator with its operands swapped: earliest first
RECURSIVE InsertByDateAscending(_, _)
InsertByDateAscending(sorted, item) ==
    IF Len(sorted) = 0 THEN <<item>>
    ELSE IF item.lastModified - sorted[1].lastModified < 0
         THEN <<item>> \o sorted
         ELSE <<sorted[1]>> \o InsertByDateAscending(Tail(sorted), item)

RECURSIVE InsertByDate(_, _)
InsertByDate(sorted, item) ==
    IF Len(sorted) = 0 THEN <<item>>
    ELSE IF sorted[1].lastModified - item.lastModified < 0
         THEN <<item>> \o sorted
         ELSE <<sorted[1]>> \o InsertByDate(Tail(sorted), item)

RECURSIVE SortByDateDesc(_)
SortByDateDesc(a) ==
    IF Len(a) = 0 THEN <<>>
    ELSE InsertByDate(SortByDateDesc(SubSeq(a, 1, Len(a) - 1)), a[Len(a)])

\* the projection of listObjects
ListItem(item) ==
    [key |-> item.key, url |-> item.url, lastModified |-> item.lastModified, size |-> item.size]

\* TelegramStorage.listObjects on an index that is an array
\* (Array.prototype.filter is SelectSeq)
ListOf(items, prefix) ==
    LET filtered == IF prefix # <<>>
                    THEN SelectSeq(items, LAMBDA item : startsWith(item.key, prefix))
                    ELSE items
        sorted == SortByDateDesc(filtered)
    IN  [i \in 1..Len(sorted) |-> ListItem(sorted[i])]

\* delete by splice(findIndex(...), 1): one record goes, the first with the
\* key, and the last of the index when none has it (findIndex gives -1)
DeleteBySplice(items, key) ==
    LET hits == { i \in 1..Len(items) : items[i].key = key }
        at == IF hits = {} THEN Len(items) ELSE CHOOSE i \in hits : \A j \in hits : i <= j
    IN  IF Len(items) = 0 THEN items
        ELSE SubSeq(items, 1, at - 1) \o SubSeq(items, at + 1, Len(items))

\* delete that stops at the first record with the key
DeleteFirstMatch(items, key) ==
    LET hits == { i \in 1..Len(items) : items[i].key = key }
        at == CHOOSE i \in hits : \A j \in hits : i <= j
    IN  IF hits = {} THEN items
        ELSE SubSeq(items, 1, at - 1) \o SubSeq(items, at + 1, Len(items))

\* the filter of TelegramStorage.delete: index.filter(item => item.key !== key)
DeleteFrom(items, key) == SelectSeq(items, LAMBDA item : item.key # key)

(***************************************************************************)
(* State.                                                                  *)
(***************************************************************************)
VARIABLES
    adapter,     \* the fields of the TelegramStorage instance
    store,       \* the persisted Local Index Store
    last,        \* the last completed operation of the adapter and its result
    hist,        \* history: what uploads returned and what deletes completed
    serialized,  \* whether the callers serialize the operations per adapter
    ctx,         \* per execution context: the position in the index update
    inp,         \* the arguments of a call of a pure function
    out,         \* its result
    shared       \* the module-level catalogs the static accessors read

vars == <<adapter, store, last, hist, serialized, ctx, inp, out, shared>>

(***************************************************************************)
(* The environment of the adapter: files, dates, responses.                *)
(***************************************************************************)
FileManagers == { [uploadPath |-> YEAR_TAG, nameRule |-> "original"] }

AdapterConfigs ==
    { [botToken |-> "TOKEN", chatId |-> "@channel", proxyUrl |-> p, fileManager |-> fm] :
        p \in {""}, fm \in FileManagers }

Dates == { [year |-> 2024, month |-> 3, day |-> 5] }

\* what Date.now() / Math.random() give the timestamp and random naming rules
Tokens == { <<"t","0">> }

Files ==
    { [name |-> <<"a",".","p","n","g">>, type |-> IMAGE_PNG],
      [name |-> <<"a",".","P","N","G">>, type |-> IMAGE_GIF],
      [name |-> <<"b",".","z","i","p">>, type |-> APPLICATION_ZIP] }

NoDescriptors ==
    [photo |-> [has |-> FALSE, variants |-> <<>>],
     video |-> <<>>, audio |-> <<>>, document |-> <<>>, animation |-> <<>>]

PhotoResult ==
    [NoDescriptors EXCEPT !.photo =
        [has |-> TRUE,
         variants |-> << [file_id |-> "photo-small", file_size |-> 10],
                         [file_id |-> "photo-large", file_size |-> 20] >>]]

DocumentResult ==
    [NoDescriptors EXCEPT !.document = << [file_id |-> "doc", file_size |-> NoSize] >>]

EmptyPhotoResult == [NoDescriptors EXCEPT !.photo = [has |-> TRUE, variants |-> <<>>]]

ResponseData(ok, hasResult, result) == [ok |-> ok, hasResult |-> hasResult, result |-> result]

\* the outcomes of the send request: fetch rejects; or it resolves with a
\* response of some HTTP status (httpOk) whose body parses as JSON or not
SendOutcomes ==
    { [kind |-> "reject", httpOk |-> FALSE, parses |-> FALSE,
       body |-> ResponseData(FALSE, FALSE, NoDescriptors)],
      [kind |-> "response", httpOk |-> FALSE, parses |-> TRUE,
       body |-> ResponseData(FALSE, FALSE, NoDescriptors)],
      [kind |-> "response", httpOk |-> TRUE, parses |-> FALSE,
       body |-> ResponseData(FALSE, FALSE, NoDescriptors)],
      [kind |-> "response", httpOk |-> TRUE, parses |-> TRUE,
       body |-> ResponseData(FALSE, FALSE, NoDescriptors)],
      [kind |-> "response", httpOk |-> TRUE, parses |-> TRUE,
       body |-> ResponseData(TRUE, FALSE, NoDescriptors)],
      [kind |-> "response", httpOk |-> TRUE, parses |-> TRUE,
       body |-> ResponseData(TRUE, TRUE, NoDescriptors)],
      [kind |-> "response", httpOk |-> TRUE, parses |-> TRUE,
       body |-> ResponseData(TRUE, TRUE, EmptyPhotoResult)],
      [kind |-> "response", httpOk |-> TRUE, parses |-> TRUE,
       body |-> ResponseData(TRUE, TRUE, PhotoResult)] }

\* the outcomes of the getFile request (see _getFilePath)
GetFileOutcomes ==
    { [kind |-> "reject", path |-> NoPath],
      [kind |-> "unparseable", path |-> NoPath],
      [kind |-> "notok", path |-> NoPath],
      [kind |-> "noresult", path |-> NoPath],
      [kind |-> "ok", path |-> NoPath],
      [kind |-> "ok", path |-> "photos/file_1.jpg"] }

\* the getFile request is made only once the send step gave a descriptor
NotRequested == [kind |-> "none", path |-> NoPath]

\* what the environment answered to the requests of an operation
NoEnv == [send |-> "", getFile |-> ""]

Times == 0..MaxTime

(***************************************************************************)
(* TelegramStorage.testConnection, lines 168-185.  An error message is a   *)
(* sequence of phrases; message.includes(phrase) looks for the phrase.      *)
(***************************************************************************)
includes(message, phrase) == \E i \in 1..Len(message) : message[i] = phrase

\* TelegramStorage._parseError, lines 313-336, on error.message
_parseError(message) ==
    IF includes(message, "Unauthorized") THEN <<"bot token invalid or expired">>
    ELSE IF includes(message, "chat not found") THEN <<"chat id invalid or bot not in the chat">>
    ELSE IF includes(message, "bot was kicked") THEN <<"bot was removed from the chat">>
    ELSE IF includes(message, "not enough rights") THEN <<"bot may not send messages">>
    ELSE IF includes(message, "file is too big") THEN <<"file over the Telegram limit">>
    ELSE IF includes(message, "NetworkError") \/ includes(message, "fetch")
    THEN <<"network connection failed">>
    ELSE IF message # <<>> THEN message
    ELSE <<"unknown error">>

\* BaseStorage._formatTestResult is not among the sources; by the contract
\* testConnection() -> {ok, message}
_formatTestResult(success, message) == [success |-> success, message |-> message]

\* the answers to the getMe request: fetch rejects; the body does not parse;
\* the body parses to null; the API reports ok with or without a description
GetMeOutcomes ==
    { [kind |-> "reject", httpOk |-> FALSE, body |-> "none", ok |-> FALSE,
       description |-> <<>>, error |-> e] :
        e \in { <<"Failed to ", "fetch">>, <<"The operation was aborted.">>, <<>> } }
    \cup { [kind |-> "response", httpOk |-> FALSE, body |-> "unparseable", ok |-> FALSE,
            description |-> <<>>, error |-> <<"Unexpected token < in JSON">>] }
    \cup { [kind |-> "response", httpOk |-> TRUE, body |-> "null", ok |-> FALSE,
            description |-> <<>>, error |-> <<>>] }
    \cup { [kind |-> "response", httpOk |-> TRUE, body |-> "object", ok |-> TRUE,
            description |-> <<>>, error |-> <<>>] }
    \cup { [kind |-> "response", httpOk |-> h, body |-> "object", ok |-> FALSE,
            description |-> d, error |-> <<>>] :
             h \in BOOLEAN, d \in { <<>>, <<"Unauthorized">> } }

GetMeRequest == [url |-> "getMe", field |-> ""]

TestCall(outcome, value) ==
    [op |-> "testConnection", arg |-> <<>>, outcome |-> outcome, stage |-> "",
     value |-> value, requests |-> <<GetMeRequest>>]

\* testConnection without its catch
testConnectionUncaught(a, getMe) ==
    IF getMe.kind = "reject" \/ getMe.body \in {"unparseable", "null"}
    THEN TestCall("threw", <<>>)
    ELSE IF getMe.ok THEN TestCall("returned", <<_formatTestResult(TRUE, <<>>)>>)
    ELSE TestCall("returned",
                  <<_formatTestResult(FALSE, IF getMe.description # <<>> THEN getMe.description
                                             ELSE <<"Invalid bot token">>)>>)

\* TelegramStorage.testConnection: data.ok of a body that parsed to null is a
\* TypeError, caught like the rejections of fetch and of response.json()
testConnection(a, getMe) ==
    IF getMe.kind = "reject" \/ getMe.body = "unparseable"
    THEN TestCall("returned", <<_formatTestResult(FALSE, _parseError(getMe.error))>>)
    ELSE IF getMe.body = "null"
    THEN TestCall("returned",
                  <<_formatTestResult(FALSE, _parseError(<<"Cannot read properties of null">>))>>)
    ELSE IF getMe.ok THEN TestCall("returned", <<_formatTestResult(TRUE, <<>>)>>)
    ELSE TestCall("returned",
                  <<_formatTestResult(FALSE, IF getMe.description # <<>> THEN getMe.description
                                             ELSE <<"Invalid bot token">>)>>)

(***************************************************************************)
(* TelegramStorage.upload, lines 64-124.                                   *)
(***************************************************************************)
\* BaseStorage._handleError is not among the sources; by the contract
\* ("upload fails with a descriptive error") the operation fails
_handleError(stage, key, requests) ==
    [op |-> "upload", arg |-> key, outcome |-> "threw", stage |-> stage,
     value |-> <<>>, requests |-> requests]

\* generatePath, _getSendFunction and _getFileInfo on the inputs of the model,
\* evaluated once
KeyOf ==
    [fm \in FileManagers, d \in Dates, t \in Tokens, f \in Files |->
        generatePath(fm.uploadPath, fm.nameRule, d, t, f.name)]

SendFunctionOf == [f \in Files |-> _getSendFunction(f.type, f.name)]

FileInfoOf == [send \in SendOutcomes |-> _getFileInfo(send.body)]

\* lines 66-106: the key, the send request, the descriptor, the path lookup,
\* the URL.  stage is the step that failed ("fetch", "status", "json", "api",
\* "fileinfo", "filepath") or "index" when all of them succeeded.
UploadRemote(a, file, date, token, send, getFile) ==
    LET key == KeyOf[a.fileManager, date, token, file]
        sendFunction == SendFunctionOf[file]
        sendRequest == [url |-> sendFunction.url, field |-> sendFunction.type]
        fileInfo == FileInfoOf[send]
        filePath == _getFilePath(getFile)
        getFileRequest == [url |-> "getFile", field |-> "file_id"]
        sent == send.kind = "response" /\ send.httpOk /\ send.parses /\ send.body.ok
        stage == IF send.kind = "reject" THEN "fetch"
                 ELSE IF ~send.httpOk THEN "status"
                 ELSE IF ~send.parses THEN "json"
                 ELSE IF ~send.body.ok THEN "api"
                 ELSE IF ~fileInfo.found THEN "fileinfo"
                 ELSE IF filePath = NoPath THEN "filepath"
                 ELSE "index"
    IN  [ stage |-> stage,
          key |-> key,
          requests |-> IF sent /\ fileInfo.found
                       THEN <<sendRequest, getFileRequest>> ELSE <<sendRequest>>,
          url |-> a.fileDomain \o <<"/file/bot", a.botToken, "/", filePath>>,
          fileId |-> fileInfo.file_id,
          filePath |-> filePath,
          size |-> IF fileInfo.file_size = NoSize \/ fileInfo.file_size = 0
                   THEN 0 ELSE fileInfo.file_size ]

\* lines 110-117: the record pushed on the index
IndexRecord(r, now) ==
    [key |-> r.key, url |-> r.url, fileId |-> r.fileId, filePath |-> r.filePath,
     lastModified |-> now, size |-> r.size]

\* line 120: the value upload returns
UploadResult(r) == [url |-> r.url, key |-> r.key, fileId |-> r.fileId, filePath |-> r.filePath]

\* a push that first drops the records carrying the key
PushOnReplacing(index, r, now) ==
    Append(SelectSeq(index, LAMBDA item : item.key # r.key), IndexRecord(r, now))

\* a push on a fresh array instead of the index that was read
PushOnEmpty(index, r, now) == <<IndexRecord(r, now)>>

\* lines 110-117: index.push({...})
PushOn(index, r, now) == Append(index, IndexRecord(r, now))

\* the record pushed as soon as the descriptor is known, before the path lookup
StoreAfterUploadBeforeLookup(st, r, now, writeOk) ==
    LET index == _getLocalIndex(st)
    IN  IF r.stage \in {"filepath", "index"} /\ index.isArray
        THEN _saveLocalIndex(st, PushOn(index.items, r, now), writeOk)
        ELSE st

\* the index written back without the push
StoreAfterUploadWithoutPush(st, r, now, writeOk) ==
    LET index == _getLocalIndex(st)
    IN  IF r.stage = "index" /\ index.isArray
        THEN _saveLocalIndex(st, index.items, writeOk)
        ELSE st

\* lines 109-118: the index after upload's update, reached only when every
\* earlier step succeeded; index.push on a value that is no array is a
\* TypeError and nothing is written
StoreAfterUpload(st, r, now, writeOk) ==
    LET index == _getLocalIndex(st)
    IN  IF r.stage = "index" /\ index.isArray
        THEN _saveLocalIndex(st, PushOn(index.items, r, now), writeOk)
        ELSE st

\* what the call comes to: the result of line 120, or the failure of line 122
UploadCompletion(st, r) ==
    IF r.stage # "index" THEN _handleError(r.stage, r.key, r.requests)
    ELSE IF ~_getLocalIndex(st).isArray THEN _handleError("index", r.key, r.requests)
    ELSE [op |-> "upload", arg |-> r.key, outcome |-> "returned", stage |-> "done",
          value |-> <<UploadResult(r)>>, requests |-> r.requests]

\* lines 134-136: the index after delete's update
StoreAfterDelete(st, key, writeOk) ==
    LET index == _getLocalIndex(st)
    IN  IF index.isArray
        THEN _saveLocalIndex(st, DeleteFrom(index.items, key), writeOk)
        ELSE st

(***************************************************************************)
(* The adapter used from one execution context, one operation at a time.   *)
(***************************************************************************)
\* the keys the files of the model generate
GeneratedKeys ==
    { KeyOf[fm, d, t, f] : fm \in FileManagers, d \in Dates, t \in Tokens, f \in Files }

Keys == GeneratedKeys

Prefixes ==
    { <<>>, <<"2","0","2","4","/">>, <<"2","0","2","4","/","a">>, <<"x">> }

\* an observed call: the operation and its argument (the key upload generated),
\* how it ended, the value it returned, the requests it made, and what it met:
\* the responses (env) and the kind of persisted value it read (read)
\* and, for delete, how many records its filter dropped
Observed(call, env, read, dropped) ==
    [call |-> call, env |-> env, read |-> read, dropped |-> dropped]

NoCall == [op |-> "none", arg |-> <<>>, outcome |-> "none", stage |-> "",
           value |-> <<>>, requests |-> <<>>]

NoOp == Observed(NoCall, NoEnv, "", 0)

NoHist == [returned |-> {}, appended |-> {}, deleted |-> {}, removed |-> {}, several |-> {}]

\* the execution contexts sharing the persisted index (two tabs of the page)
Contexts == {"tab1", "tab2"}

Idle == [pc |-> "idle", op |-> "none", key |-> <<>>, index |-> <<>>]

NoCtx == [c \in Contexts |-> Idle]

\* the stores a session can start from: nothing persisted yet, an index left
\* by an earlier session (here empty), or a value some other code put there
InitialStores == { [kind |-> k, recs |-> <<>>] : k \in StoreKinds }

Init ==
    /\ adapter \in { TelegramStorage(c) : c \in AdapterConfigs }
    /\ store \in InitialStores
    /\ last = NoOp
    /\ hist = NoHist
    /\ serialized = TRUE
    /\ ctx = NoCtx
    /\ inp = <<>>
    /\ out = <<>>
    /\ shared = <<>>

HasKey(pairs, key) == { p \in pairs : p.key = key }

\* the outcomes of the path lookup that can follow a send outcome
GetFileAfter(send) ==
    IF send.kind = "response" /\ send.httpOk /\ send.parses /\ FileInfoOf[send].found
    THEN GetFileOutcomes ELSE {NotRequested}

\* the history after an upload call that generated r.key
HistAfterUpload(h, r, returned, writeOk) ==
    LET pair == [key |-> r.key, url |-> r.url]
    IN  [ returned |-> IF returned THEN h.returned \cup {pair} ELSE h.returned,
          appended |-> IF returned /\ writeOk THEN h.appended \cup {pair} ELSE h.appended,
          deleted |-> h.deleted \ {r.key},
          removed |-> h.removed \ {r.key},
          several |-> h.several \ {r.key} ]

\* upload(file)
Upload ==
    \E file \in Files, date \in Dates, token \in Tokens, send \in SendOutcomes :
      \E getFile \in GetFileAfter(send) :
        LET r == UploadRemote(adapter, file, date, token, send, getFile)
            done == UploadCompletion(store, r)
            env == [send |-> send, getFile |-> getFile, saved |-> FALSE]
        IN  /\ Len(_getLocalIndex(store).items) < MaxIndex
            /\ IF r.stage # "index"
               THEN /\ store' = StoreAfterUpload(store, r, 0, TRUE)
                    /\ last' = Observed(done, env, "", 0)
                    /\ hist' = HistAfterUpload(hist, r, FALSE, FALSE)
               ELSE \E now \in Times, writeOk \in BOOLEAN :
                    /\ store' = StoreAfterUpload(store, r, now, writeOk)
                    /\ last' = Observed(done, [env EXCEPT !.saved = writeOk], store.kind, 0)
                    /\ hist' = HistAfterUpload(hist, r, done.outcome = "returned", writeOk)
            /\ UNCHANGED <<shared, adapter, serialized, ctx, inp, out>>

\* delete(key), lines 131-139: index.filter on a value that is no array is a
\* TypeError; no request is made
Delete ==
    \E key \in Keys, writeOk \in BOOLEAN :
        LET index == _getLocalIndex(store)
            done == [op |-> "delete", arg |-> key,
                     outcome |-> IF index.isArray THEN "returned" ELSE "threw",
                     stage |-> "", value |-> <<>>, requests |-> <<>>]
        IN  /\ store' = StoreAfterDelete(store, key, writeOk)
            /\ last' = Observed(done,
                                 [send |-> "", getFile |-> "", saved |-> index.isArray /\ writeOk],
                                 store.kind,
                                 Len(index.items) - Len(DeleteFrom(index.items, key)))
            /\ hist' = IF ~index.isArray THEN hist
                       ELSE [ returned |-> hist.returned \ HasKey(hist.returned, key),
                              appended |-> hist.appended \ HasKey(hist.appended, key),
                              deleted |-> hist.deleted \cup {key},
                              removed |-> IF writeOk THEN hist.removed \cup {key}
                                          ELSE hist.removed,
                              several |-> IF writeOk /\ Len(index.items)
                                               - Len(DeleteFrom(index.items, key)) >= 2
                                          THEN hist.several \cup {key} ELSE hist.several ]
            /\ UNCHANGED <<shared, adapter, serialized, ctx, inp, out>>

\* listObjects(prefix), lines 145-162: filter or sort on a value that is no
\* array is a TypeError
ListObjects ==
    \E prefix \in Prefixes :
        LET index == _getLocalIndex(store)
            done == [op |-> "listObjects", arg |-> prefix,
                     outcome |-> IF index.isArray THEN "returned" ELSE "threw",
                     stage |-> "",
                     value |-> IF index.isArray THEN ListOf(index.items, prefix) ELSE <<>>,
                     requests |-> <<>>]
        IN  /\ last' = Observed(done, NoEnv, store.kind, 0)
            /\ UNCHANGED <<shared, adapter, store, hist, serialized, ctx, inp, out>>

\* testConnection(), lines 168-185
TestConnection ==
    \E getMe \in GetMeOutcomes :
        /\ last' = Observed(testConnection(adapter, getMe),
                            [send |-> "", getFile |-> "", getMe |-> getMe], "", 0)
        /\ UNCHANGED <<shared, adapter, store, hist, serialized, ctx, inp, out>>

Next == Upload \/ Delete \/ ListObjects \/ TestConnection

Spec == Init /\ [][Next]_vars

(***************************************************************************)
(* Properties of the adapter used from one execution context.              *)
(***************************************************************************)
Items == _getLocalIndex(store).items

ListedKeys(value) == { value[i].key : i \in 1..Len(value) }

Holds(records, pair) ==
    \E i \in 1..Len(records) : records[i].key = pair.key /\ records[i].url = pair.url

SendNotDelivered(env) ==
    env.send.kind = "reject" \/ ~env.send.httpOk \/ ~env.send.parses

ApiRefused(env) == ~env.send.body.ok

NoDescriptor(env) ==
    \/ ~env.send.body.hasResult
    \/ /\ Len(env.send.body.result.photo.variants) = 0
       /\ \A field \in {"video", "audio", "document", "animation"} :
            Len(env.send.body.result[field]) = 0

NoPathFound(env) == env.getFile.kind # "ok" \/ env.getFile.path = NoPath

ProtocolFailure(env) ==
    SendNotDelivered(env) \/ ApiRefused(env) \/ NoDescriptor(env) \/ NoPathFound(env)

\* C3: an upload that fails at a protocol step returns no result and leaves the
\* persisted index as it was; the index changes only after the send request and
\* then the path lookup were made, with a descriptor found in between; the path
\* lookup is made only after the send step gave a descriptor.
C3_FailedUploadLeavesIndex ==
    [][ last'.call.op = "upload" =>
          /\ ProtocolFailure(last'.env) =>
                /\ last'.call.outcome = "threw"
                /\ last'.call.value = <<>>
                /\ store' = store
          /\ (store' # store \/ last'.call.outcome = "returned") =>
                /\ ~ProtocolFailure(last'.env)
                /\ Len(last'.call.requests) = 2
                /\ last'.call.requests[1].url # "getFile"
                /\ last'.call.requests[2].url = "getFile"
          /\ (SendNotDelivered(last'.env) \/ ApiRefused(last'.env) \/ NoDescriptor(last'.env)) =>
                Len(last'.call.requests) = 1 ]_vars

\* an upload that failed at the path lookup, the index holding records
C3_Witness ==
    /\ last.call.op = "upload"
    /\ last.call.outcome = "threw"
    /\ last.env.send.body.ok
    /\ last.env.getFile.kind = "notok"
    /\ Len(Items) >= 1

\* C5: whatever is persisted that is no array of records (nothing, text that
\* does not parse, text that parses to null, a number, an object) counts as an
\* empty index: listObjects returns the empty sequence, delete completes, and
\* the index step of an upload does not fail it.
C5_CorruptIndexIsEmpty ==
    last.read \in StoreKinds \ {"array"} =>
        /\ last.call.outcome = "returned"
        /\ last.call.op = "listObjects" => last.call.value = <<>>

\* the persisted values that hold a sequence of records
HoldsIndex(st) == st.kind \in {"absent", "empty", "unparseable", "array"}

\* C6: on a store that holds an index, delete(key) for a key no record carries
\* completes and leaves the records and their order; and deleting twice leaves
\* what deleting once leaves.
C6_DeleteIdempotent ==
    /\ [](HoldsIndex(store) =>
           \A key \in Keys, w1, w2 \in BOOLEAN :
              _getLocalIndex(StoreAfterDelete(StoreAfterDelete(store, key, w1), key, w2)).items
                = _getLocalIndex(StoreAfterDelete(store, key, w1 \/ w2)).items)
    /\ [][ ( /\ last'.call.op = "delete"
             /\ HoldsIndex(store)
             /\ last'.call.arg \notin { Items[i].key : i \in 1..Len(Items) } ) =>
              /\ last'.call.outcome = "returned"
              /\ _getLocalIndex(store').items = Items ]_vars

\* a completed delete that dropped nothing from an index holding records
C6_Witness ==
    /\ last.call.op = "delete"
    /\ last.call.outcome = "returned"
    /\ last.dropped = 0
    /\ Len(Items) >= 1

Count(records, x) == Cardinality({ i \in 1..Len(records) : records[i] = x })

\* the index records a listing by prefix is to return, in the common shape
Matching(prefix) ==
    SelectSeq([i \in 1..Len(Items) |-> ListItem(Items[i])],
              LAMBDA item : \E rest \in { SubSeq(item.key, n, Len(item.key)) :
                                            n \in 1..(Len(item.key) + 1) } :
                               item.key = prefix \o rest)

\* C7: listObjects(prefix) on a populated index returns the records whose key
\* starts with the prefix (all of them for the empty prefix), each once, with
\* lastModified never increasing from one record to the next.
C7_ListFilteredAndSorted ==
    (last.call.op = "listObjects" /\ store.kind = "array" /\ Len(Items) >= 1) =>
        LET value == last.call.value
        IN  /\ last.call.outcome = "returned"
            /\ Len(value) = Len(Matching(last.call.arg))
            /\ \A x \in Range(value) \cup Range(Matching(last.call.arg)) :
                  Count(value, x) = Count(Matching(last.call.arg), x)
            /\ \A i, j \in 1..Len(value) :
                  i < j => value[i].lastModified >= value[j].lastModified

\* a listing that had to reorder: the index holds the earlier record first
C7_Witness ==
    /\ last.call.op = "listObjects"
    /\ last.call.arg # <<>>
    /\ Len(last.call.value) = 2
    /\ Len(Items) = 2
    /\ Items[1].lastModified < Items[2].lastModified
    /\ last.call.value[1].lastModified > last.call.value[2].lastModified

(***************************************************************************)
(* The pure functions, each called once on an input of a bounded set.      *)
(***************************************************************************)
NoOut == [done |-> FALSE, value |-> <<>>]

\* the variables of the adapter, at rest while a pure function is called
AdapterAtRest ==
    /\ adapter = TelegramStorage(CHOOSE c \in AdapterConfigs : TRUE)
    /\ store = [kind |-> "absent", recs |-> <<>>]
    /\ last = NoOp
    /\ hist = NoHist
    /\ serialized = TRUE
    /\ ctx = NoCtx
    /\ shared = <<>>

MimeTypes ==
    { IMAGE_GIF, IMAGE_PNG, IMAGE_WEBP, IMAGE_SVG, IMAGE_ICON, VIDEO_MP4, AUDIO_MPEG,
      APPLICATION_ZIP, <<>>, IMAGE_, <<"t","e","x","t","/">> \o IMAGE_PNG }

FileNames ==
    { <<"a",".">> \o GIF, <<"a",".","G","I","F">>, <<"a",".">> \o WEBP,
      <<"a",".","p","n","g">>, <<"a",".","s","v","g">>, <<"a",".","i","c","o">>,
      <<"a",".","m","p","4">>, <<"a",".","m","p","3">>, <<"a",".","z","i","p">>,
      GIF, <<"a",".">> \o GIF \o <<".","p","n","g">>, <<"a",".","p","n","g",".">> \o GIF,
      <<"a",".">>, <<".">> \o WEBP, <<"a">> \o GIF }

InitSend ==
    /\ AdapterAtRest
    /\ inp \in { [fileType |-> m, fileName |-> n] : m \in MimeTypes, n \in FileNames }
    /\ out = NoOut

\* this._getSendFunction(file.type, file.name)
CallGetSendFunction ==
    /\ ~out.done
    /\ out' = [done |-> TRUE, value |-> _getSendFunction(inp.fileType, inp.fileName)]
    /\ UNCHANGED <<shared, adapter, store, last, hist, serialized, ctx, inp>>

SpecSend == InitSend /\ [][CallGetSendFunction]_vars

\* the values of a config entry in the model
EntryValues == { Undefined, Null, <<>>, <<" ">>, <<"x">>, <<" ","x"," ">> }

\* the config objects for a storage type: every required field takes every
\* value, every optional field is missing or filled
ConfigsOf(type) ==
    { [present |-> TRUE, entries |-> e] :
        e \in { f \in [FieldKeys(type) -> EntryValues] :
                  \A k \in OptionalKeys(type) : f[k] \in {Undefined, <<"x">>} } }

Types == DOMAIN STORAGE_SERVICES \cup {"ftp", ""} \cup InheritedNames

\* the types whose configs the model enumerates in full, and the type whose
\* configs stand in when the type is no service
SchemaOf(type) == IF type \in DOMAIN STORAGE_SERVICES THEN type ELSE "telegram"

InitValidate ==
    /\ AdapterAtRest
    /\ inp \in { [type |-> t, config |-> c] :
                   t \in Types,
                   c \in UNION { ConfigsOf(k) : k \in DOMAIN STORAGE_SERVICES } \cup {NoConfig} }
    /\ out = NoOut
    /\ inp.config = NoConfig \/ DOMAIN inp.config.entries = FieldKeys(SchemaOf(inp.type))

\* validateStorageConfig(type, config)
CallValidateStorageConfig ==
    /\ ~out.done
    /\ out' = [done |-> TRUE, value |-> validateStorageConfig(inp.type, inp.config)]
    /\ UNCHANGED <<shared, adapter, store, last, hist, serialized, ctx, inp>>

SpecValidate == InitValidate /\ [][CallValidateStorageConfig]_vars

\* the settings objects handed to createStorage: the provider's fields nested
\* under the type's key (config[type]), and at the top level either no
\* provider field or the same fields once more
SettingsOf(type) ==
    { [ present |-> TRUE, entries |-> top, uploadPath |-> path.uploadPath,
        nameRule |-> path.nameRule, provider |-> provider ] :
        provider \in ConfigsOf(SchemaOf(type)) \cup {NoConfig},
        top \in {<<>>} \cup { c.entries : c \in ConfigsOf(SchemaOf(type)) },
        path \in { [uploadPath |-> Undefined, nameRule |-> ""],
                   [uploadPath |-> YEAR_TAG, nameRule |-> "random"] } }

NoSettings ==
    [ present |-> FALSE, entries |-> <<>>, uploadPath |-> Undefined, nameRule |-> "",
      provider |-> NoConfig ]

InitCreate ==
    /\ AdapterAtRest
    /\ \E t \in {"telegram", "ftp", "constructor"} :
         \E c \in { x \in SettingsOf(t) : x.entries \in {<<>>, x.provider.entries} }
                    \cup {NoSettings} :
            inp = [type |-> t, config |-> c]
    /\ out = NoOut

\* FileManager.createStorage(type, config)
CallCreateStorage ==
    /\ ~out.done
    /\ out' = [done |-> TRUE, value |-> createStorage(inp.type, inp.config)]
    /\ UNCHANGED <<shared, adapter, store, last, hist, serialized, ctx, inp>>

SpecCreate == InitCreate /\ [][CallCreateStorage]_vars

(***************************************************************************)
(* C8: the send endpoint.                                                  *)
(***************************************************************************)
\* the position of the final "." of a name, 0 when it has none
LastDot(name) ==
    LET dots == { i \in 1..Len(name) : name[i] = "." }
    IN  IF dots = {} THEN 0 ELSE CHOOSE i \in dots : \A j \in dots : j <= i

\* the extension: the lower-cased text after the final ".", the whole name
\* when it has no "."
Extension(name) ==
    LET from == LastDot(name) + 1
    IN  [i \in 1..(Len(name) - from + 1) |-> LowerChar(name[from + i - 1])]

HasPrefix(text, prefix) ==
    /\ Len(prefix) <= Len(text)
    /\ \A i \in 1..Len(prefix) : text[i] = prefix[i]

\* the rules of the priority order
EndpointRules(mimeType, filename) ==
    << [applies |-> Extension(filename) \in {GIF, WEBP} \/ mimeType = IMAGE_GIF,
        endpoint |-> "animation"],
       [applies |-> mimeType \in {IMAGE_SVG, IMAGE_ICON}, endpoint |-> "document"],
       [applies |-> HasPrefix(mimeType, IMAGE_), endpoint |-> "photo"],
       [applies |-> HasPrefix(mimeType, VIDEO_), endpoint |-> "video"],
       [applies |-> HasPrefix(mimeType, AUDIO_), endpoint |-> "audio"],
       [applies |-> TRUE, endpoint |-> "document"] >>

FirstMatch(rules) ==
    rules[CHOOSE i \in 1..Len(rules) :
            rules[i].applies /\ \A j \in 1..(i - 1) : ~rules[j].applies].endpoint

EndpointUrl ==
    [ animation |-> "sendAnimation", document |-> "sendDocument", photo |-> "sendPhoto",
      video |-> "sendVideo", audio |-> "sendAudio" ]

SendExamples ==
    { <<IMAGE_GIF, <<"a",".">> \o GIF, "animation">>,
      <<IMAGE_SVG, <<"a",".","s","v","g">>, "document">>,
      <<IMAGE_PNG, <<"a",".","p","n","g">>, "photo">>,
      <<VIDEO_MP4, <<"a",".","m","p","4">>, "video">>,
      <<APPLICATION_ZIP, <<"a",".","z","i","p">>, "document">> }

\* C8: for every (mimeType, filename) the endpoint _getSendFunction chooses is
\* the first match of the priority order (gif or webp extension or image/gif
\* -> animation; image/svg+xml or image/x-icon -> document; image/ -> photo;
\* video/ -> video; audio/ -> audio; else document), the five examples of the
\* design document come out as stated, and the multipart field name is the
\* one of the chosen endpoint.
C8_EndpointIsFirstMatch ==
    out.done =>
        /\ out.value.type = FirstMatch(EndpointRules(inp.fileType, inp.fileName))
        /\ out.value.type \in DOMAIN EndpointUrl
        /\ out.value.url = EndpointUrl[out.value.type]
        /\ \A e \in SendExamples :
             (inp.fileType = e[1] /\ inp.fileName = e[2]) => out.value.type = e[3]

\* a call where two rules apply and the order decides: an svg mime type on a
\* name with the gif extension
C8_Witness ==
    /\ out.done
    /\ inp.fileType = IMAGE_SVG
    /\ Extension(inp.fileName) = GIF
    /\ out.value.type = "animation"

(***************************************************************************)
(* C10: validation of a provider configuration.                            *)
(***************************************************************************)
\* a field holding text other than whitespace
Filled(entries, key) ==
    /\ key \in DOMAIN entries
    /\ entries[key] \notin {Undefined, Null}
    /\ \E i \in 1..Len(entries[key]) : entries[key][i] # " "

RequiredKeys(type) == FieldKeys(type) \ OptionalKeys(type)

SomeFilled(type, config) ==
    config.present /\ \E k \in RequiredKeys(type) : Filled(config.entries, k)

SomeNotFilled(type, config) ==
    config.present /\ \E k \in RequiredKeys(type) : ~Filled(config.entries, k)

\* the configs that differ from config in optional fields only
OptionalVariants(type, config) ==
    IF ~config.present THEN {config}
    ELSE { [ present |-> TRUE,
             entries |-> [k \in FieldKeys(type) |->
                            IF k \in OptionalKeys(type) THEN o[k] ELSE config.entries[k]] ] :
             o \in [OptionalKeys(type) -> {Undefined, <<"x">>}] }

\* C10: validateStorageConfig(type, config) returns {isValid, message}: for an
\* unknown type tag isValid is false whatever config is; for a known type it is
\* true when config is absent or no required field is filled, false with the
\* fill-all-or-clear-all message when some required field is filled and some
\* is not, true when all are filled; optional fields never change the result.
C10_ValidationTable ==
    out.done =>
        LET type == inp.type
            config == inp.config
            result == out.value
        IN  /\ result.outcome = "returned"
            /\ type \notin DOMAIN STORAGE_SERVICES => ~result.isValid
            /\ type \in DOMAIN STORAGE_SERVICES =>
                 /\ ~SomeFilled(type, config) => result.isValid
                 /\ SomeFilled(type, config) /\ SomeNotFilled(type, config) =>
                      /\ ~result.isValid
                      /\ result.message = "fill in all required fields or clear them all"
                 /\ ~SomeNotFilled(type, config) => result.isValid
                 /\ \A c \in OptionalVariants(type, config) :
                      validateStorageConfig(type, c) = result

\* C10 for the type tags that name no property of the service table or of
\* its prototype: the table of results holds
C10_ValidationTableOwnNames ==
    inp.type \notin InheritedNames => C10_ValidationTable

\* a known type with one required field filled and another left blank,
\* refused with the fill-all-or-clear-all message
C10_Witness ==
    /\ out.done
    /\ inp.type = "telegram"
    /\ SomeFilled(inp.type, inp.config) /\ SomeNotFilled(inp.type, inp.config)
    /\ ~out.value.isValid
    /\ out.value.message = "fill in all required fields or clear them all"

(***************************************************************************)
(* C9: createStorage.                                                      *)
(***************************************************************************)
\* C9: createStorage(type, config) validates the provider configuration the
\* adapter receives: it raises an error whenever type is unrecognized or
\* config[type] has some but not all required fields filled, and it returns an
\* adapter, carrying a File Manager and config[type], only when config[type]
\* passes the required-field validation.
C9_ValidatesProviderConfig ==
    out.done =>
        LET type == inp.type
            provider == inp.config.provider
            unrecognized == type \notin DOMAIN STORAGE_SERVICES
            partial == ~unrecognized /\ SomeFilled(type, provider) /\ SomeNotFilled(type, provider)
        IN  /\ unrecognized \/ partial => out.value.outcome = "threw"
            /\ out.value.outcome = "returned" =>
                 /\ ~unrecognized /\ ~partial
                 /\ out.value.adapter.class = type
                 /\ provider.present => out.value.adapter.config = provider.entries

(***************************************************************************)
(* Two execution contexts on one persisted index.  Each context runs the   *)
(* index update of upload (lines 109-118) and of delete (lines 133-135) as  *)
(* the code does: getItem and the change of the array it parsed, then       *)
(* setItem of the whole array.  serialized, chosen at the start, says       *)
(* whether a context waits for the other's update to end before it reads.   *)
(* hist keeps what the completed updates should have left: the keys        *)
(* uploaded and not deleted since (live), the keys deleted and not         *)
(* uploaded since (gone), and the kinds of lost update seen so far (lost).  *)
(***************************************************************************)
IndexKeys(st) == { _getLocalIndex(st).items[i].key : i \in 1..Len(_getLocalIndex(st).items) }

LostKinds(st, live, gone) ==
    {"upload lost" : k \in live \ IndexKeys(st)} \cup {"delete undone" : k \in gone \cap IndexKeys(st)}

MayRead(c) == serialized => \A d \in Contexts \ {c} : ctx[d].pc = "idle"

InitCtx ==
    /\ adapter \in { TelegramStorage(c) : c \in AdapterConfigs }
    /\ store = [kind |-> "absent", recs |-> <<>>]
    /\ last = NoOp
    /\ hist = [live |-> {}, gone |-> {}, lost |-> {}]
    /\ serialized \in BOOLEAN
    /\ ctx = NoCtx
    /\ inp = <<>>
    /\ out = NoOut
    /\ shared = <<>>

\* upload, lines 66-117: the remote steps succeeded, the index is read and
\* the record pushed on the array
CtxUploadRead(c) ==
    /\ ctx[c].pc = "idle"
    /\ MayRead(c)
    /\ Len(_getLocalIndex(store).items) < MaxIndex
    /\ \E file \in Files, date \in Dates, token \in Tokens, send \in SendOutcomes :
         \E getFile \in GetFileAfter(send) :
            LET r == UploadRemote(adapter, file, date, token, send, getFile)
            IN  /\ r.stage = "index"
                /\ ctx' = [ctx EXCEPT ![c] =
                             [pc |-> "save", op |-> "upload", key |-> r.key,
                              index |-> PushOn(_getLocalIndex(store).items, r, 0)]]
    /\ UNCHANGED <<shared, adapter, store, last, hist, serialized, inp, out>>

\* delete, lines 133-134: the index is read and filtered
CtxDeleteRead(c) ==
    /\ ctx[c].pc = "idle"
    /\ MayRead(c)
    /\ \E key \in Keys :
         ctx' = [ctx EXCEPT ![c] =
                   [pc |-> "save", op |-> "delete", key |-> key,
                    index |-> DeleteFrom(_getLocalIndex(store).items, key)]]
    /\ UNCHANGED <<shared, adapter, store, last, hist, serialized, inp, out>>

\* line 118 and line 135: this._saveLocalIndex(index)
CtxSave(c) ==
    /\ ctx[c].pc = "save"
    /\ \E writeOk \in BOOLEAN :
         LET key == ctx[c].key
             live == IF ~writeOk THEN hist.live
                     ELSE IF ctx[c].op = "upload" THEN hist.live \cup {key}
                     ELSE hist.live \ {key}
             gone == IF ~writeOk THEN hist.gone
                     ELSE IF ctx[c].op = "delete" THEN hist.gone \cup {key}
                     ELSE hist.gone \ {key}
         IN  /\ store' = _saveLocalIndex(store, ctx[c].index, writeOk)
             /\ hist' = [live |-> live, gone |-> gone,
                         lost |-> hist.lost \cup LostKinds(store', live, gone)]
    /\ ctx' = [ctx EXCEPT ![c] = Idle]
    /\ UNCHANGED <<shared, adapter, last, serialized, inp, out>>

NextCtx ==
    \E c \in Contexts : CtxUploadRead(c) \/ CtxDeleteRead(c) \/ CtxSave(c)

SpecCtx == InitCtx /\ [][NextCtx]_vars

(***************************************************************************)
(* C4: lost updates.                                                       *)
(***************************************************************************)
\* C4: the read-modify-write of the index is not synchronized: with two
\* contexts interleaving their reads and writes an update can be lost (an
\* uploaded record missing, a deleted key present again); when the updates
\* are serialized, no update is ever lost.
C4_SerializedLosesNothing ==
    serialized => /\ hist.lost = {}
                  /\ LostKinds(store, hist.live, hist.gone) = {}

\* interleaved contexts, both at rest again: an upload's record is missing
\* from the index, and before that a deleted key had come back
C4_Witness ==
    /\ ~serialized
    /\ \A c \in Contexts : ctx[c].pc = "idle"
    /\ hist.lost = {"upload lost", "delete undone"}
    /\ hist.live \ IndexKeys(store) # {}

(***************************************************************************)
(* validateFile and processFile, each called once on a file, a config and  *)
(* a behaviour of the compression collaborator.                            *)
(***************************************************************************)
\* sizes around both readings of a limit of m MB, and the empty file
FileSizes ==
    {0} \cup UNION { { m * (1000 * 1000) + d, m * (1024 * 1024) + d } :
                       m \in 1..MaxFileSizeMB, d \in {-1, 0, 1} }

FileTypes == { IMAGE_PNG, IMAGE_GIF, VIDEO_MP4, APPLICATION_ZIP }

AllowedTypeLists == { {IMAGE_PNG, VIDEO_MP4}, FileTypes }

FileConfigs ==
    { [maxFileSize |-> m, allowedTypes |-> a] : m \in 1..MaxFileSizeMB, a \in AllowedTypeLists }

InputFiles ==
    { [name |-> <<"a">>, type |-> t, size |-> n] : t \in FileTypes, n \in FileSizes }

CompressedFile == [name |-> <<"a">>, type |-> IMAGE_WEBP, size |-> 1]

\* what imageCompressor.compress does when called: it resolves with a file or
\* rejects with a value, an Error or anything else a throw can carry
CompressOutcomes ==
    { [kind |-> "file", file |-> CompressedFile, thrown |-> [kind |-> "none", message |-> ""]] }
    \cup { [kind |-> "throw", file |-> CompressedFile, thrown |-> t] :
             t \in { [kind |-> "Error", message |-> "compression failed"],
                     [kind |-> "Error", message |-> ""],
                     [kind |-> "string", message |-> ""],
                     [kind |-> "object", message |-> ""],
                     [kind |-> "null", message |-> ""],
                     [kind |-> "undefined", message |-> ""] } }

InitFile ==
    /\ AdapterAtRest
    /\ inp \in { [file |-> f, config |-> c, compress |-> k] :
                   f \in InputFiles, c \in FileConfigs, k \in CompressOutcomes }
    /\ out = [done |-> FALSE, fn |-> "", value |-> <<>>]

\* this.validateFile(file)
CallValidateFile ==
    /\ ~out.done
    /\ out' = [done |-> TRUE, fn |-> "validateFile",
               value |-> validateFile(inp.config, inp.file)]
    /\ UNCHANGED <<shared, adapter, store, last, hist, serialized, ctx, inp>>

\* await fileManager.processFile(file)
CallProcessFile ==
    /\ ~out.done
    /\ out' = [done |-> TRUE, fn |-> "processFile",
               value |-> processFile(inp.config, inp.file, inp.compress)]
    /\ UNCHANGED <<shared, adapter, store, last, hist, serialized, ctx, inp>>

NextFile == CallValidateFile \/ CallProcessFile

SpecFile == InitFile /\ [][NextFile]_vars

Validated == out.done /\ out.fn = "validateFile"

Processed == out.done /\ out.fn = "processFile"

(***************************************************************************)
(* C11: the size limit.                                                    *)
(***************************************************************************)
\* C11 as stated: validateFile returns the size-limit message, naming the
\* configured limit, exactly for the files with sizeBytes / 1,000,000 >
\* maxFileSizeMB.
C11_SizeLimitByMillion ==
    Validated =>
        ( inp.file.size > inp.config.maxFileSize * (1000 * 1000)
            <=> out.value = SizeLimitMessage(inp.config.maxFileSize) )

\* C11 amended: validateFile returns the size-limit message, naming the
\* configured limit, exactly for the files with sizeBytes / 1,048,576 >
\* maxFileSizeMB.
C11_SizeLimitByMebibyte ==
    Validated =>
        /\ ( inp.file.size > inp.config.maxFileSize * 1048576
               <=> out.value.text = "file size over the limit" )
        /\ out.value.text = "file size over the limit" =>
               out.value.limit = inp.config.maxFileSize

\* a file one byte over a limit of 2 MB, refused with the message naming 2
C11_Witness ==
    /\ Validated
    /\ inp.config.maxFileSize = 2
    /\ inp.file.size = 2 * 1048576 + 1
    /\ out.value = SizeLimitMessage(2)

(***************************************************************************)
(* C12: size before type.                                                  *)
(***************************************************************************)
OverLimit == inp.file.size > inp.config.maxFileSize * 1048576

Allowed == inp.file.type \in inp.config.allowedTypes

\* C12: validateFile checks size before type: a file over the size limit whose
\* type is not allowed gets the size-limit message; a file within the limit
\* whose type is not allowed gets the unsupported-format message; a file
\* within the limit with an allowed type gets true.
C12_SizeBeforeType ==
    Validated =>
        /\ OverLimit /\ ~Allowed => out.value.text = "file size over the limit"
        /\ ~OverLimit /\ ~Allowed => out.value.text = "unsupported file format"
        /\ ~OverLimit /\ Allowed => out.value.text = "true"

\* a file with both faults, refused for its size
C12_Witness ==
    /\ Validated
    /\ OverLimit /\ ~Allowed
    /\ out.value.text = "file size over the limit"

(***************************************************************************)
(* C13 and C14: processFile.                                               *)
(***************************************************************************)
PassedValidation == validateFile(inp.config, inp.file).text = "true"

IsImage == HasPrefix(inp.file.type, IMAGE_)

\* C13: processFile calls compress if and only if validateFile returned true
\* and the type starts with image/: on a validation failure it returns the
\* validation message with no file; for a valid file that is no image it
\* returns the input file itself; for a valid image it returns the file
\* compress produced.
C13_CompressOnlyValidImages ==
    Processed =>
        /\ out.value.compressCalls # <<>> <=> (PassedValidation /\ IsImage)
        /\ out.value.compressCalls \in {<<>>, <<inp.file>>}
        /\ ~PassedValidation =>
              /\ out.value.outcome = "returned"
              /\ out.value.file = <<>>
              /\ out.value.error.kind = "string"
              /\ out.value.error.text = validateFile(inp.config, inp.file).text
        /\ PassedValidation /\ ~IsImage =>
              /\ out.value.outcome = "returned"
              /\ out.value.file = <<inp.file>>
              /\ out.value.error.kind = "null"
        /\ PassedValidation /\ IsImage /\ inp.compress.kind = "file" =>
              /\ out.value.outcome = "returned"
              /\ out.value.file = <<inp.compress.file>>
              /\ out.value.error.kind = "null"

\* a valid image, compressed
C13_Witness ==
    /\ Processed
    /\ PassedValidation /\ IsImage
    /\ inp.compress.kind = "file"
    /\ out.value.compressCalls = <<inp.file>>
    /\ out.value.file = <<CompressedFile>>

\* C14: processFile never raises: for every file and every outcome of
\* compress (a file, or any thrown value) it completes with a file and a null
\* error, or with a null file and a non-empty error message.
C14_ProcessFileNeverRaises ==
    Processed =>
        /\ out.value.outcome = "returned"
        /\ \/ out.value.file # <<>> /\ out.value.error.kind = "null"
           \/ /\ out.value.file = <<>>
              /\ out.value.error.kind = "string"
              /\ out.value.error.text # ""

(***************************************************************************)
(* _generateFilename under the original naming rule, called once on a name. *)
(***************************************************************************)
NameAlphabet == {"a", "P", ".", "-", " ", "!"}

MY_PHOTO == <<"M","y"," ","P","h","o","t","o","!","!",".","P","N","G">>
ARCHIVE_TAR_GZ == <<"a","r","c","h","i","v","e",".","t","a","r",".","g","z">>

OriginalNames ==
    UNION { [1..n -> NameAlphabet] : n \in 0..MaxNameLen } \cup {MY_PHOTO, ARCHIVE_TAR_GZ}

InitName ==
    /\ AdapterAtRest
    /\ inp \in { [originalFilename |-> n, nameRule |-> "original"] : n \in OriginalNames }
    /\ out = NoOut

\* this._generateFilename(filename); the token of the other rules is not read
CallGenerateFilename ==
    /\ ~out.done
    /\ out' = [done |-> TRUE,
               value |-> _generateFilename(inp.originalFilename, inp.nameRule, <<>>)]
    /\ UNCHANGED <<shared, adapter, store, last, hist, serialized, ctx, inp>>

SpecName == InitName /\ [][CallGenerateFilename]_vars

(***************************************************************************)
(* C15: the generated name.                                                *)
(***************************************************************************)
\* the base name of the design document: the name without its final
\* extension, the whole name when it has no "."
BaseName(name) ==
    IF LastDot(name) = 0 THEN name ELSE SubSeq(name, 1, LastDot(name) - 1)

\* the sanitization: forbidden characters to "-", runs of "-" to one, no
\* leading or trailing "-"
Sanitized(s) ==
    StripTrailingRun(StripLeadingRun(CollapseRuns(ReplaceForbidden(s), "-"), "-"), "-")

\* C15: under nameRule = original the generated name is <base>.<ext>, ext the
\* lower-cased text after the final "." of the original name and base the
\* sanitized name without that final extension; "My Photo!!.PNG" gives
\* My-Photo.png.
C15_OriginalNameKeepsBase ==
    out.done =>
        /\ out.value = Sanitized(BaseName(inp.originalFilename)) \o <<".">>
                         \o Extension(inp.originalFilename)
        /\ inp.originalFilename = MY_PHOTO =>
              out.value = <<"M","y","-","P","h","o","t","o",".","p","n","g">>

(***************************************************************************)
(* The static accessors of FileManager (src/unnamed/part_002, 481-511).     *)
(* A catalog is an object tree, given by its leaves: a function from the    *)
(* path of a primitive value (the keys and array indexes leading to it) to  *)
(* that value.  A value handed to a caller is such a tree together with the *)
(* paths of the objects in it that are the catalog's own objects: a write   *)
(* below one of them is a write to the catalog.                             *)
(***************************************************************************)
\* the leaves of STORAGE_SERVICES: key and required of every field
StoragePaths ==
    UNION { { <<t, "fields", DIGITS[i], "key">>, <<t, "fields", DIGITS[i], "required">> } :
              t \in DOMAIN STORAGE_SERVICES, i \in 1..4 }
    \cup { <<"s3", "fields", DIGITS[5], k>> : k \in {"key", "required"} }

StorageTree ==
    [ p \in StoragePaths |->
        LET field == STORAGE_SERVICES[p[1]][CHOOSE i \in 1..10 : DIGITS[i] = p[3]]
        IN  IF p[4] = "key" THEN field.key
            ELSE IF field.required THEN "true" ELSE "false" ]

\* DEFAULT_SETTINGS, NAME_RULES and OUTPUT_FORMATS are not among the sources:
\* the settings the constructor and getDefaultSettings read (allowedTypes an
\* array of mime types, image an object of primitive options), and catalogs
\* whose entries are primitive values
DefaultSettingsTree ==
    ( <<"uploadPath">> :> "{year}/{month}/{day}" ) @@ ( <<"nameRule">> :> "original" )
    @@ ( <<"maxFileSize">> :> "10" )
    @@ ( <<"allowedTypes", "0">> :> "image/png" ) @@ ( <<"allowedTypes", "1">> :> "image/gif" )
    @@ ( <<"image", "format">> :> "webp" ) @@ ( <<"image", "quality">> :> "80" )

NAME_RULES ==
    ( <<"TIMESTAMP">> :> "timestamp" ) @@ ( <<"RANDOM">> :> "random" )
    @@ ( <<"ORIGINAL">> :> "original" )

OUTPUT_FORMATS ==
    ( <<"WEBP">> :> "webp" ) @@ ( <<"JPEG">> :> "jpeg" ) @@ ( <<"PNG">> :> "png" )

Accessors == {"getDefaultSettings", "getNameRules", "getOutputFormats", "getSupportedStorages"}

\* the catalogs as the modules define them
Catalogs ==
    [ getDefaultSettings |-> DefaultSettingsTree, getNameRules |-> NAME_RULES,
      getOutputFormats |-> OUTPUT_FORMATS, getSupportedStorages |-> StorageTree ]

\* the paths of the objects and arrays of a tree
ObjectPaths(tree) ==
    UNION { { SubSeq(p, 1, n) : n \in 1..Len(p) } : p \in DOMAIN tree } \ DOMAIN tree

\* every path that can be written: a leaf, or an object as a whole
WritablePaths(tree) == ObjectPaths(tree) \cup DOMAIN tree

\* { ...catalog }: a new object whose entries are the catalog's entries, the
\* objects among them being the catalog's own
Spread(tree) ==
    [leaves |-> tree, own |-> { p \in ObjectPaths(tree) : Len(p) = 1 }]

\* getDefaultSettings, lines 481-487: the spread, with a new array for
\* allowedTypes and a spread of image
getDefaultSettings(catalogs) ==
    LET copy == Spread(catalogs.getDefaultSettings)
        imageObjects == { p \in ObjectPaths(catalogs.getDefaultSettings) :
                            Len(p) = 2 /\ p[1] = "image" }
    IN  [ leaves |-> copy.leaves,
          own |-> (copy.own \ {<<"allowedTypes">>, <<"image">>}) \cup imageObjects ]

\* getNameRules, lines 493-495
getNameRules(catalogs) == Spread(catalogs.getNameRules)

\* getOutputFormats, lines 501-503
getOutputFormats(catalogs) == Spread(catalogs.getOutputFormats)

\* getSupportedStorages, lines 509-511
getSupportedStorages(catalogs) == Spread(catalogs.getSupportedStorages)

Access(accessor, catalogs) ==
    IF accessor = "getDefaultSettings" THEN getDefaultSettings(catalogs)
    ELSE IF accessor = "getNameRules" THEN getNameRules(catalogs)
    ELSE IF accessor = "getOutputFormats" THEN getOutputFormats(catalogs)
    ELSE getSupportedStorages(catalogs)

IsUnder(path, top) == Len(top) <= Len(path) /\ SubSeq(path, 1, Len(top)) = top

\* a tree after a write at path: the leaves at and below it hold the new value
Written(tree, path) == [p \in DOMAIN tree |-> IF IsUnder(p, path) THEN "changed" ELSE tree[p]]

\* whether a write at path of a handed value lands in the catalog: the
\* object written to, the one holding the last key of the path, is the
\* catalog's own or lies inside one of the catalog's own
ReachesCatalog(value, path) ==
    \E o \in value.own : Len(o) < Len(path) /\ IsUnder(path, o)

InitAccess ==
    /\ adapter = TelegramStorage(CHOOSE c \in AdapterConfigs : TRUE)
    /\ store = [kind |-> "absent", recs |-> <<>>]
    /\ last = NoOp
    /\ hist = NoHist
    /\ serialized = TRUE
    /\ ctx = NoCtx
    /\ shared = Catalogs
    /\ inp = [mutations |-> 0]
    /\ out = [held |-> FALSE, accessor |-> "", fresh |-> FALSE, leaves |-> <<>>, own |-> {}]

\* FileManager.getDefaultSettings(), getNameRules(), getOutputFormats(),
\* getSupportedStorages()
CallAccessor ==
    \E accessor \in Accessors :
        LET value == Access(accessor, shared)
        IN  /\ out' = [held |-> TRUE, accessor |-> accessor, fresh |-> TRUE,
                       leaves |-> value.leaves, own |-> value.own]
            /\ UNCHANGED <<shared, adapter, store, last, hist, serialized, ctx, inp>>

\* the caller assigns to a part of the value it holds
CallerMutates ==
    /\ out.held
    /\ inp.mutations < MaxMutations
    /\ \E path \in WritablePaths(out.leaves) :
         /\ out' = [out EXCEPT !.fresh = FALSE, !.leaves = Written(out.leaves, path)]
         /\ shared' = IF ReachesCatalog(out, path)
                      THEN [shared EXCEPT ![out.accessor] = Written(@, path)]
                      ELSE shared
    /\ inp' = [mutations |-> inp.mutations + 1]
    /\ UNCHANGED <<adapter, store, last, hist, serialized, ctx>>

NextAccess == CallAccessor \/ CallerMutates

SpecAccess == InitAccess /\ [][NextAccess]_vars

(***************************************************************************)
(* C16: defensive copies.                                                  *)
(***************************************************************************)
\* C16: the static accessors return defensive copies: whatever part of a
\* returned value a caller changes, a top-level entry or a nested one, the
\* shared catalogs stay as they were and a later call of the accessor returns
\* the original values.
C16_AccessorsReturnDefensiveCopies ==
    /\ shared = Catalogs
    /\ (out.held /\ out.fresh) => out.leaves = Catalogs[out.accessor]

(***************************************************************************)
(* C17: testConnection.                                                    *)
(***************************************************************************)
Tested == last.call.op = "testConnection"

\* C17: testConnection never raises and uploads nothing: it makes one getMe
\* request and returns a success result if and only if the API response
\* reports ok:true; an ok:false response, a transport failure and an
\* unreadable body each give a failure result with one message.
C17_TestConnectionReportsOk ==
    /\ []( Tested =>
             /\ last.call.outcome = "returned"
             /\ last.call.requests = <<[url |-> "getMe", field |-> ""]>>
             /\ Len(last.call.value) = 1
             /\ last.call.value[1].success
                   <=> (last.env.getMe.kind = "response" /\ last.env.getMe.body = "object"
                          /\ last.env.getMe.ok)
             /\ ~last.call.value[1].success =>
                   /\ last.call.value[1].message # <<>>
                   /\ \A i \in 1..Len(last.call.value[1].message) :
                         last.call.value[1].message[i] # "" )
    /\ [][Tested' => store' = store]_vars

\* a test that met a transport failure, the index holding a record
C17_Witness ==
    /\ Tested
    /\ last.env.getMe.kind = "reject"
    /\ ~last.call.value[1].success
    /\ Len(Items) >= 1

(***************************************************************************)
(* isStorageConfigured, called once on a type and a settings object.       *)
(***************************************************************************)
InitConfigured ==
    /\ AdapterAtRest
    /\ \E t \in {"telegram", "ftp", "constructor", ""} :
         \E c \in { x \in SettingsOf(t) : x.entries \in {<<>>, x.provider.entries} }
                    \cup {NoSettings} :
            inp = [type |-> t, config |-> c]
    /\ out = NoOut

\* FileManager.isStorageConfigured(type, config)
CallIsStorageConfigured ==
    /\ ~out.done
    /\ out' = [done |-> TRUE, value |-> isStorageConfigured(inp.type, inp.config)]
    /\ UNCHANGED <<shared, adapter, store, last, hist, serialized, ctx, inp>>

SpecConfigured == InitConfigured /\ [][CallIsStorageConfigured]_vars

(***************************************************************************)
(* C18: isStorageConfigured.                                               *)
(***************************************************************************)
\* the configuration is complete: a known type whose every required field is
\* filled in config[type]
Complete(type, config) ==
    /\ type \in DOMAIN STORAGE_SERVICES
    /\ config.present
    /\ config.provider.present
    /\ ~SomeNotFilled(type, config.provider)

\* C18: isStorageConfigured(type, config) returns true only when type is a
\* known storage type and every required field of it is filled in
\* config[type], and the boolean false in every other case: absent type,
\* absent config, an empty sub-config, a sub-config filled in part.
C18_ConfiguredMeansComplete ==
    out.done =>
        /\ out.value.outcome = "returned"
        /\ out.value.value \in {"true", "false"}
        /\ out.value.value = "true" <=> Complete(inp.type, inp.config)

(***************************************************************************)
(* C19: colliding keys.                                                    *)
(***************************************************************************)
KeyCount(records, key) == Cardinality({ i \in 1..Len(records) : records[i].key = key })

VariantSizes == {NoSize, 10, 20, 30}

\* the photo arrays: the variant at position i has the file id DIGITS[i]
PhotoArrays ==
    UNION { { [i \in 1..n |-> [file_id |-> DIGITS[i], file_size |-> sizes[i]]] :
                sizes \in [1..n -> VariantSizes] } : n \in 0..MaxVariants }

SingleDescriptors == { [file_id |-> "file", file_size |-> n] : n \in {NoSize, 10} }

\* the bodies of a send response: refused, without result, without any
\* descriptor, with a photo array, with one of the single descriptors
SendBodies ==
    { ResponseData(FALSE, FALSE, NoDescriptors), ResponseData(TRUE, FALSE, NoDescriptors),
      ResponseData(TRUE, TRUE, NoDescriptors) }
    \cup { ResponseData(TRUE, TRUE, [NoDescriptors EXCEPT !.photo = [has |-> TRUE, variants |-> v]]) :
             v \in PhotoArrays }
    \cup { ResponseData(TRUE, TRUE, [NoDescriptors EXCEPT ![f] = <<d>>]) :
             f \in {"video", "audio", "document", "animation"}, d \in SingleDescriptors }

InitInfo ==
    /\ AdapterAtRest
    /\ inp \in { [responseData |-> b] : b \in SendBodies }
    /\ out = NoOut

\* this._getFileInfo(responseData)
CallGetFileInfo ==
    /\ ~out.done
    /\ out' = [done |-> TRUE, value |-> _getFileInfo(inp.responseData)]
    /\ UNCHANGED <<shared, adapter, store, last, hist, serialized, ctx, inp>>

SpecInfo == InitInfo /\ [][CallGetFileInfo]_vars

(***************************************************************************)
(* C20: the descriptor of an upload.                                       *)
(***************************************************************************)
Variants == inp.responseData.result.photo.variants

HasPhoto == inp.responseData.ok /\ inp.responseData.hasResult /\ inp.responseData.result.photo.has

SingleFields == {"video", "audio", "document", "animation"}

\* the descriptor is one of the variants, and no variant reports a larger size
LargestOf(info, variants) ==
    /\ info.found
    /\ \E i \in 1..Len(variants) :
          info.file_id = variants[i].file_id /\ info.file_size = variants[i].file_size
    /\ \A i \in 1..Len(variants) :
          variants[i].file_size # NoSize =>
             info.file_size # NoSize /\ info.file_size >= variants[i].file_size

\* what C20 says of the single descriptors and of the responses without one
SingleOrNone(info) ==
    /\ \A f \in SingleFields :
          (inp.responseData.ok /\ inp.responseData.hasResult /\ ~HasPhoto
             /\ Len(inp.responseData.result[f]) = 1) =>
                /\ info.found
                /\ info.file_id = inp.responseData.result[f][1].file_id
                /\ info.file_size = inp.responseData.result[f][1].file_size
    /\ ( \/ ~inp.responseData.ok
         \/ ~inp.responseData.hasResult
         \/ HasPhoto /\ Len(Variants) = 0
         \/ ~HasPhoto /\ \A f \in SingleFields : Len(inp.responseData.result[f]) = 0 )
          => ~info.found

\* C20: for a photo result the descriptor used is a variant whose file_size is
\* greater than or equal to that of every other variant, for every non-empty
\* list of variants; for video, audio, document and animation it is the
\* descriptor returned; without any of them, or with an empty photo list,
\* there is no descriptor (and the upload fails).
C20_LargestVariantUsed ==
    out.done =>
        /\ (HasPhoto /\ Len(Variants) > 0) => LargestOf(out.value, Variants)
        /\ SingleOrNone(out.value)

\* C20 for the photo results whose variants all report a file_size
C20_LargestReportedVariantUsed ==
    out.done =>
        /\ (HasPhoto /\ Len(Variants) > 0
              /\ \A i \in 1..Len(Variants) : Variants[i].file_size # NoSize)
             => LargestOf(out.value, Variants)
        /\ SingleOrNone(out.value)

\* three variants, the largest of them in the middle, chosen
C20_Witness ==
    /\ out.done
    /\ HasPhoto
    /\ Len(Variants) = 3
    /\ Variants[1].file_size = 10 /\ Variants[2].file_size = 30 /\ Variants[3].file_size = 20
    /\ out.value.file_id = Variants[2].file_id

(***************************************************************************)
(* generatePath, called once on a template, a date and a file name.        *)
(***************************************************************************)
\* the pieces of a template and their text
PieceText ==
    [ year |-> YEAR_TAG, month |-> MONTH_TAG, day |-> DAY_TAG, slash |-> <<"/">>, dir |-> <<"d">> ]

Pieces == DOMAIN PieceText

RECURSIVE Concat(_)
Concat(ss) == IF ss = <<>> THEN <<>> ELSE Head(ss) \o Concat(Tail(ss))

\* config.uploadPath: the pieces written one after the other
TemplateOf(pieces) == Concat([i \in 1..Len(pieces) |-> PieceText[pieces[i]]])

YEAR_MONTH_DAY == <<"year", "slash", "month", "slash", "day">>

Templates == UNION { [1..n -> Pieces] : n \in 0..MaxPieces } \cup {YEAR_MONTH_DAY}

\* what new Date() gives: a one-digit and a two-digit month and day
PathDates == Dates \cup { [year |-> 2025, month |-> 11, day |-> 23] }

PathNameAlphabet == {"a", ".", "/"}

PathNames == UNION { [1..n -> PathNameAlphabet] : n \in 0..MaxPathNameLen } \cup { <<"a",".","p","n","g">> }

InitPath ==
    /\ AdapterAtRest
    /\ inp \in { [pieces |-> t, uploadPath |-> TemplateOf(t), nameRule |-> r, date |-> d,
                  token |-> k, filename |-> f] :
                   t \in Templates, r \in {"original", "timestamp"}, d \in PathDates,
                   k \in Tokens, f \in PathNames }
    /\ out = NoOut

\* fileManager.generatePath(filename)
CallGeneratePath ==
    /\ ~out.done
    /\ out' = [done |-> TRUE,
               value |-> generatePath(inp.uploadPath, inp.nameRule, inp.date, inp.token,
                                      inp.filename)]
    /\ UNCHANGED <<shared, adapter, store, last, hist, serialized, ctx, inp>>

SpecPath == InitPath /\ [][CallGeneratePath]_vars

(***************************************************************************)
(* C21: the returned path is normalized.                                   *)
(***************************************************************************)
Normalized(path) ==
    /\ \A i \in 1..(Len(path) - 1) : ~(path[i] = "/" /\ path[i + 1] = "/")
    /\ Len(path) > 0 => path[1] # "/" /\ path[Len(path)] # "/"

\* C21: for every template and every file name the path returned by
\* generatePath has no two consecutive "/", does not start with "/" and does
\* not end with "/".
C21_PathNormalized == out.done => Normalized(out.value)

\* a template and a name that need all three steps of the normalization
C21_Witness ==
    /\ out.done
    /\ inp.pieces = <<"slash", "slash", "dir">>
    /\ inp.filename = <<".", "/">>
    /\ inp.nameRule = "original"
    /\ out.value = <<"d", "/", ".">>

(***************************************************************************)
(* C22: the placeholders of the template.                                  *)
(***************************************************************************)
\* what the design document puts in place of a piece
Substituted(piece, date) ==
    CASE piece = "year" -> NatToString(date.year)
      [] piece = "month" -> padStart2(NatToString(date.month))
      [] piece = "day" -> padStart2(NatToString(date.day))
      [] OTHER -> PieceText[piece]

\* the directory part: every piece of the template substituted
DirectoryOf(pieces, date) == Concat([i \in 1..Len(pieces) |-> Substituted(pieces[i], date)])

Occurrences(pieces, piece) == Cardinality({ i \in 1..Len(pieces) : pieces[i] = piece })

NoPlaceholderIn(path) ==
    IndexOf(path, YEAR_TAG) = 0 /\ IndexOf(path, MONTH_TAG) = 0 /\ IndexOf(path, DAY_TAG) = 0

\* the returned path has the substituted directory part and no placeholder
PlaceholdersSubstituted ==
    /\ out.value = _normalizePath(DirectoryOf(inp.pieces, inp.date) \o <<"/">>
                     \o _generateFilename(inp.filename, inp.nameRule, inp.token))
    /\ NoPlaceholderIn(out.value)
    /\ (inp.pieces = YEAR_MONTH_DAY /\ inp.date = [year |-> 2024, month |-> 3, day |-> 5]) =>
          startsWith(out.value, <<"2","0","2","4","/","0","3","/","0","5","/">>)

\* C22: generatePath puts the year, the 2-digit month and the 2-digit day in
\* place of {year}, {month} and {day}, for every template made of these
\* placeholders and separators, however many times a placeholder occurs:
\* "{year}/{month}/{day}" on 2024-03-05 gives the directory part 2024/03/05
\* and no placeholder remains in the returned path.
C22_PlaceholdersSubstituted == out.done => PlaceholdersSubstituted

\* C22 for the templates in which no placeholder occurs twice
C22_SinglePlaceholdersSubstituted ==
    (out.done /\ \A p \in {"year", "month", "day"} : Occurrences(inp.pieces, p) <= 1)
        => PlaceholdersSubstituted

\* "{year}/{month}/{day}" on 2024-03-05
C22_Witness ==
    /\ out.done
    /\ inp.pieces = YEAR_MONTH_DAY
    /\ inp.date = [year |-> 2024, month |-> 3, day |-> 5]
    /\ inp.filename = <<"a",".","p","n","g">>
    /\ inp.nameRule = "original"
    /\ out.value = <<"2","0","2","4","/","0","3","/","0","5","/","a",".","p","n","g">>

(***************************************************************************)
(* One execution context, several calls in flight.  A call runs from one   *)
(* await to the next without interruption; at an await any other call may  *)
(* run.  upload awaits the send request (line 76), the body of its         *)
(* response (lines 83, 87) and _getFilePath (line 99), which awaits the    *)
(* getFile request (line 277) and its body (line 282); after the last      *)
(* await upload reads the index, pushes and saves (lines 109-118) and      *)
(* returns.  delete has no await.  ctx[t].pc is the await a call is        *)
(* suspended at.  hist keeps, for every key, the number of uploads that    *)
(* returned since the last delete of the key (live, kept as long as every  *)
(* write to the store succeeded), whether a write to the store failed      *)
(* (failed), and the overlaps seen so far (seen).                          *)
(***************************************************************************)
Tasks == 1..MaxTasks

IdleTask == [pc |-> "idle", file |-> <<>>]

InFlight == { t \in Tasks : ctx[t].pc # "idle" }

InitLoop ==
    /\ adapter \in { TelegramStorage(c) : c \in AdapterConfigs }
    /\ store \in InitialStores
    /\ last = NoOp
    /\ hist = [live |-> [k \in Keys |-> 0], failed |-> FALSE, seen |-> {}]
    /\ serialized = TRUE
    /\ ctx = [t \in Tasks |-> IdleTask]
    /\ inp = <<>>
    /\ out = <<>>
    /\ shared = <<>>

\* upload(file), lines 66-76: up to the await of the send request
LoopCallUpload(t) ==
    /\ ctx[t].pc = "idle"
    /\ Len(_getLocalIndex(store).items) + Cardinality(InFlight) < MaxIndex
    /\ \E file \in Files : ctx' = [ctx EXCEPT ![t] = [pc |-> "sendFetch", file |-> file]]
    /\ UNCHANGED <<shared, adapter, store, last, hist, serialized, inp, out>>

\* line 76 resumes: fetch rejected (the catch of line 121), or it gave a
\* response whose body is awaited next (line 83 or line 87)
LoopSendFetched(t) ==
    /\ ctx[t].pc = "sendFetch"
    /\ \E rejected \in BOOLEAN :
         ctx' = [ctx EXCEPT ![t] = IF rejected THEN IdleTask
                                   ELSE [pc |-> "sendBody", file |-> ctx[t].file]]
    /\ UNCHANGED <<shared, adapter, store, last, hist, serialized, inp, out>>

\* lines 83-96 and 275-277: the body is there; the call fails, or
\* _getFilePath starts and awaits the getFile request
LoopSendBody(t) ==
    /\ ctx[t].pc = "sendBody"
    /\ \E send \in { o \in SendOutcomes : o.kind = "response" } :
         ctx' = [ctx EXCEPT ![t] =
                   IF send.httpOk /\ send.parses /\ send.body.ok /\ FileInfoOf[send].found
                   THEN [pc |-> "getFileFetch", file |-> ctx[t].file]
                   ELSE IdleTask]
    /\ UNCHANGED <<shared, adapter, store, last, hist, serialized, inp, out>>

\* line 277 resumes; a rejection is caught by _getFilePath (line 288), whose
\* null is still awaited by upload (line 99)
LoopGetFileFetched(t) ==
    /\ ctx[t].pc = "getFileFetch"
    /\ \E rejected \in BOOLEAN :
         ctx' = [ctx EXCEPT ![t] =
                   [pc |-> IF rejected THEN "getFileRejected" ELSE "getFileBody",
                    file |-> ctx[t].file]]
    /\ UNCHANGED <<shared, adapter, store, last, hist, serialized, inp, out>>

\* lines 282 and 99 resume, then lines 100-120 without an await: the path,
\* the URL, the index read, the push, the save, the return
LoopUploadIndex(t) ==
    /\ ctx[t].pc \in {"getFileRejected", "getFileBody"}
    /\ \E send \in { o \in SendOutcomes : FileInfoOf[o].found /\ o.body.ok },
          getFile \in GetFileOutcomes, date \in Dates, token \in Tokens, writeOk \in BOOLEAN :
         LET r == UploadRemote(adapter, ctx[t].file, date, token, send, getFile)
             done == UploadCompletion(store, r)
             returned == done.outcome = "returned"
         IN  /\ (getFile.kind = "reject") = (ctx[t].pc = "getFileRejected")
             /\ store' = StoreAfterUpload(store, r, 0, writeOk)
             /\ hist' = [ live |-> IF returned /\ writeOk /\ ~hist.failed
                                   THEN [hist.live EXCEPT ![r.key] = @ + 1] ELSE hist.live,
                          failed |-> hist.failed \/ (returned /\ ~writeOk),
                          seen |-> IF returned /\ InFlight # {t}
                                   THEN hist.seen \cup {"upload"} ELSE hist.seen ]
    /\ ctx' = [ctx EXCEPT ![t] = IdleTask]
    /\ UNCHANGED <<shared, adapter, last, serialized, inp, out>>

\* delete(key), lines 131-139, called while other calls are suspended
LoopDelete ==
    /\ \E key \in Keys, writeOk \in BOOLEAN :
         LET index == _getLocalIndex(store)
         IN  /\ store' = StoreAfterDelete(store, key, writeOk)
             /\ hist' = IF ~index.isArray THEN hist
                        ELSE [ live |-> [hist.live EXCEPT ![key] = 0],
                               failed |-> hist.failed \/ ~writeOk,
                               seen |-> IF InFlight # {}
                                        THEN hist.seen \cup {"delete"} ELSE hist.seen ]
    /\ UNCHANGED <<shared, adapter, last, serialized, ctx, inp, out>>

NextLoop ==
    \/ \E t \in Tasks : \/ LoopCallUpload(t)
                        \/ LoopSendFetched(t)
                        \/ LoopSendBody(t)
                        \/ LoopGetFileFetched(t)
                        \/ LoopUploadIndex(t)
    \/ LoopDelete

SpecLoop == InitLoop /\ [][NextLoop]_vars

(***************************************************************************)
(* C23: no update is lost in one execution context.                        *)
(***************************************************************************)
\* C23: in one execution context the index update of upload and of delete
\* has no suspension point between its read and its write, so calls in
\* flight at once, interleaved at their network awaits, lose no update:
\* provided every write to the store succeeded, the index holds one record
\* per upload that returned, minus the records whose key was deleted after
\* they were appended.
C23_NoLostUpdate ==
    ~hist.failed =>
        \A key \in Keys :
            Cardinality({ i \in 1..Len(_getLocalIndex(store).items) :
                            _getLocalIndex(store).items[i].key = key }) = hist.live[key]

\* all calls finished, after an upload and a delete each completed while
\* another upload was suspended, with two records in the index
C23_Witness ==
    /\ InFlight = {}
    /\ ~hist.failed
    /\ hist.seen = {"upload", "delete"}
    /\ Len(_getLocalIndex(store).items) = 2

(***************************************************************************)
(* C24: the records an operation is not about.                             *)
(***************************************************************************)
\* the records of the index that do not carry the key, in their order
Others(items, key) == SelectSeq(items, LAMBDA item : item.key # key)

Carrying(items, key) == SelectSeq(items, LAMBDA item : item.key = key)

\* upload and delete leave the records of the other keys as they were
OthersKept ==
    last'.call.op \in {"upload", "delete"} =>
        Others(_getLocalIndex(store').items, last'.call.arg)
            = Others(_getLocalIndex(store).items, last'.call.arg)

\* the index after the step is the index before it and one record of the key
OneAdded ==
    /\ Len(_getLocalIndex(store').items) = Len(_getLocalIndex(store).items) + 1
    /\ SubSeq(_getLocalIndex(store').items, 1, Len(_getLocalIndex(store).items))
          = _getLocalIndex(store).items
    /\ _getLocalIndex(store').items[Len(_getLocalIndex(store').items)].key = last'.call.arg

====
